---- MODULE Spec2Model ----
(***************************************************************************)
(* Flux daemon: the session Timer actor (flux-daemon/src/actors/timer.rs)  *)
(* with the session repository it writes to, and the App Tracker actor     *)
(* (flux-daemon/src/actors/app_tracker.rs) with the app-usage and metrics  *)
(* repositories.                                                           *)
(*                                                                         *)
(* Time is an integer clock `now` in abstract units.  A tick is driven by  *)
(* a 1 s interval and reads a nanosecond monotonic clock: it takes the     *)
(* time d >= 1 that passed since the previous tick.  Messages are handled  *)
(* between ticks and read the clock as the last tick left it.              *)
(*                                                                         *)
(* Option<T> is a sequence of length 0 (None) or 1 (Some).                 *)
(***************************************************************************)
EXTENDS Integers, Sequences, FiniteSets, TLC

\* ---- bounds of the model ----
MaxDuration == 5
MaxStep == 2
MaxTime == 5
MaxSessions == 2
MaxFailures == 1
MaxFaultySessions == 1
MaxIncrements == 2

\* ---- Option ----
None == <<>>
Some(x) == <<x>>
IsSome(o) == o # <<>>
Unwrap(o) == o[1]

\* ---- inputs ----
\* Start requests: a zero duration, and two durations with different modes
StartRequests ==
    {[duration |-> 0, mode |-> "AiAssisted"],
     [duration |-> MaxDuration - 1, mode |-> "Review"],
     [duration |-> MaxDuration, mode |-> "AiAssisted"]}
TickSteps == 1..MaxStep
CheckInResponses == {"Focused", "NotFocused"}

VARIABLES
    last_op,           \* the handler that ran last
    effects            \* calls made by the handler that ran last, in order

VARIABLES
    now,               \* the clock (Instant::now / Utc::now)
    state,             \* TimerActor.state : Option<TimerState>
    current_session,   \* TimerActor.current_session : Option<Session>
    pending_check_in,  \* TimerActor.pending_check_in : Option<oneshot::Receiver>
    sessions,          \* rows of the sessions table, indexed by id
    storage_faulty,    \* whether repository calls may fail in this run
    tray,              \* TrayState held by the TrayStateHandle
    check_ins_sent,    \* CheckIn messages sent since the last Start
    last_ended,        \* summary of the session that ended last, until the next Start
    repo_failures      \* repository calls of the Timer that returned Err so far

timerVars == <<now, state, current_session, pending_check_in, sessions,
               storage_faulty, tray, check_ins_sent, last_ended, repo_failures>>

VARIABLES
    tracker,           \* AppTrackerActor.state : Option<TrackerState>
    app_tracking,      \* app_tracking table: (session, application) -> seconds
    session_metrics,   \* session_metrics table: session -> Option<SessionMetrics>
    suggestions_file,  \* suggestions.json : Option<SuggestionReport>
    started_count,     \* Started messages handled so far
    tick_count,        \* tracker ticks so far
    ticks_sampled,     \* (session, application) -> ticks that sampled it
    ended_sessions,    \* sessions for which Ended was handled
    prev_sample,       \* application of the previous sampled tick of the session
    sample_pairs,      \* switches between consecutive sampled ticks
    prev_unbroken,     \* as prev_sample, forgotten when Paused is handled
    unbroken_pairs,    \* switches between sampled ticks with no Paused between
    bursts,            \* residences of the session and the short bursts they make
    alert_enabled      \* AppTrackerActor.distraction_config.alert_enabled

trackerVars == <<tracker, app_tracking, session_metrics, suggestions_file,
                 started_count, tick_count, ticks_sampled, ended_sessions,
                 prev_sample, sample_pairs, prev_unbroken, unbroken_pairs, bursts,
                 alert_enabled>>

VARIABLES
    spawned,           \* tasks spawned by AppTrackerHandle that have not sent yet
    mailbox,           \* the App Tracker's mpsc channel
    emitted,           \* lifecycle messages the Timer emitted so far
    handled            \* emission numbers of the messages the tracker handled, in order

linkVars == <<spawned, mailbox, emitted, handled>>

VARIABLES
    daemon,            \* where main is: "starting", "listening", "returned", "exited"
    socket_file,       \* whether the socket file exists
    shutdown_sent,     \* whether the shutdown broadcast was sent
    conns,             \* the client connections, by id
    timer_mailbox      \* the Timer's mpsc channel

serverVars == <<daemon, socket_file, shutdown_sent, conns, timer_mailbox>>

VARIABLES
    codec              \* a value on its way through an encoding and back

codecVars == <<codec>>

VARIABLES
    notifier_mailbox,  \* the Notifier's mpsc channel: ids of the CheckIn messages in it
    check_ins          \* the check-ins asked of the Notifier, by id

notifierVars == <<notifier_mailbox, check_ins>>

VARIABLES
    digest             \* the Digest Scheduler: its config, clock, sleep and repository

digestVars == <<digest>>

VARIABLES
    suggestion         \* a call of SuggestionReport::from_session_data and its result

suggestionVars == <<suggestion>>

vars == <<timerVars, trackerVars, linkVars, serverVars, codecVars, notifierVars,
          digestVars, suggestionVars, last_op, effects>>

\* ---- constants of timer.rs ----
CHECK_IN_THRESHOLDS == <<25, 50, 75>>

\* An outgoing call: a message to an actor or a repository call.
Eff(to, msg, arg) == [to |-> to, msg |-> msg, arg |-> arg]

\* Outcomes a repository call can have.
RepoOutcomes == IF storage_faulty THEN BOOLEAN ELSE {TRUE}

\* Session::start
SessionStart(mode, t) ==
    [id |-> 0, mode |-> mode, started_at |-> t, ended_at |-> None,
     duration_seconds |-> None, check_in_count |-> 0]

\* A bug of Session::end: the duration is left unset
SessionEndWithoutDuration(s, t) == [s EXCEPT !.ended_at = Some(t)]

\* Session::end
SessionEnd(s, t) ==
    [s EXCEPT !.ended_at = Some(t), !.duration_seconds = Some(t - s.started_at)]

\* Session::increment_check_in
SessionIncrementCheckIn(s) == [s EXCEPT !.check_in_count = @ + 1]

\* SqliteSessionRepository::update : UPDATE ... WHERE id
RepoUpdate(rows, s) ==
    [rows EXCEPT ![s.id] = [@ EXCEPT !.ended_at = s.ended_at,
                                     !.duration_seconds = s.duration_seconds,
                                     !.check_in_count = s.check_in_count]]

\* Whether one of the calls is a repository call that returned Err
RepoCallFailed(effs) ==
    \E i \in DOMAIN effs :
        effs[i].to = "repository" /\ effs[i].msg \in {"save_failed", "update_failed"}

\* A bug of notify_persistence_error: nothing is sent
PersistenceAlertSilent == <<>>

\* notify_persistence_error
PersistenceAlert == <<Eff("notifier", "Alert", 0)>>

\* elapsed_percent: (total - remaining) / total * 100, capped, truncated to u8.
\* 0.0 / 0.0 is NaN, NaN.min(100.0) is 100.0.
ElapsedPercent(st) ==
    LET elapsed == IF st.total_duration > st.remaining
                   THEN st.total_duration - st.remaining ELSE 0
    IN  IF st.total_duration = 0 THEN 100
        ELSE LET p == (elapsed * 100) \div st.total_duration
             IN  IF p > 100 THEN 100 ELSE p

\* A bug of next_check_in_threshold: the elapsed percentage is not compared
CheckInCandidatesAnyPercent(st) == {i \in 1..3 : ~st.check_ins_done[i]}

\* next_check_in_threshold: the indexes not done whose threshold is reached
CheckInCandidates(st) ==
    {i \in 1..3 : ~st.check_ins_done[i] /\ ElapsedPercent(st) >= CHECK_IN_THRESHOLDS[i]}

\* next_check_in_threshold: the first of the candidates
NextCheckInThreshold(st) ==
    IF CheckInCandidates(st) = {} THEN None
    ELSE Some(CHOOSE i \in CheckInCandidates(st) :
                  \A j \in CheckInCandidates(st) : i <= j)

\* mark_check_in_done
MarkCheckInDone(st, i) == [st EXCEPT !.check_ins_done[i] = TRUE]

\* current_status
CurrentStatus ==
    IF IsSome(state)
    THEN [active |-> TRUE, remaining |-> Unwrap(state).remaining,
          mode |-> Some(Unwrap(state).mode), paused |-> Unwrap(state).paused]
    ELSE [active |-> FALSE, remaining |-> 0, mode |-> None, paused |-> FALSE]

\* Number of rows of the sessions table whose ended_at is NULL
ActiveRows == {i \in 1..Len(sessions) : sessions[i].ended_at = None}

TimerInit ==
    /\ now = 0
    /\ state = None
    /\ current_session = None
    /\ pending_check_in = None
    /\ sessions = <<>>
    /\ storage_faulty = FALSE
    /\ tray = "Inactive"
    /\ last_op = "Init"
    /\ effects = <<>>
    /\ check_ins_sent = 0
    /\ last_ended = None
    /\ repo_failures = 0

\* TimerMessage::Start
Start(duration, mode, ok) ==
    /\ UNCHANGED trackerVars
    /\ Len(sessions) < MaxSessions
    /\ state' = Some([mode |-> mode, total_duration |-> duration,
                      remaining |-> duration, last_tick |-> now,
                      paused |-> FALSE, check_ins_done |-> <<FALSE, FALSE, FALSE>>])
    /\ LET session == [SessionStart(mode, now) EXCEPT !.id = Len(sessions) + 1]
           started == IF ok THEN Some(session) ELSE current_session
       IN  /\ sessions' = IF ok THEN Append(sessions, session) ELSE sessions
           /\ current_session' = started
           /\ effects' =
                  <<Eff("repository", IF ok THEN "save" ELSE "save_failed", 0)>>
                  \o (IF ok THEN <<>> ELSE PersistenceAlert)
                  \o <<Eff("notifier", "SessionStart", duration)>>
                  \o (IF IsSome(started)
                      THEN <<Eff("app_tracker", "Started", Unwrap(started).id)>>
                      ELSE <<>>)
    /\ tray' = "Active"
    /\ last_op' = "Start"
    /\ check_ins_sent' = 0
    /\ last_ended' = None
    /\ UNCHANGED <<now, pending_check_in, storage_faulty>>

\* The bookkeeping shared by Stop and by completion in the tick:
\* send_session_ended, persist_session_end, update_tray_inactive,
\* send_session_end, state = None.
EndSession(t, ok, percent) ==
    /\ LET ended == IF IsSome(current_session)
                    THEN Some(SessionEnd(Unwrap(current_session), t)) ELSE None
           written == IsSome(ended) /\ ok
       IN  /\ sessions' = IF written THEN RepoUpdate(sessions, Unwrap(ended))
                          ELSE sessions
           /\ effects' =
                  <<Eff("app_tracker", "Ended", 0)>>
                  \o (IF IsSome(ended)
                      THEN <<Eff("repository", IF ok THEN "update" ELSE "update_failed",
                                 Unwrap(ended).id)>>
                           \o (IF ok THEN <<>> ELSE PersistenceAlert)
                      ELSE <<>>)
                  \o <<Eff("notifier", "SessionEnd", Unwrap(state).total_duration)>>
           /\ last_ended' =
                  Some([id |-> IF IsSome(ended) THEN Unwrap(ended).id ELSE 0,
                        sent |-> check_ins_sent,
                        percent |-> percent,
                        persisted |-> IF IsSome(ended)
                                      THEN sessions'[Unwrap(ended).id].check_in_count
                                      ELSE 0])
    /\ current_session' = None
    /\ tray' = "Inactive"
    /\ state' = None

\* A bug of Stop: a paused session is not stopped
StopUnlessPaused(ok) ==
    /\ UNCHANGED trackerVars
    /\ UNCHANGED now
    /\ last_op' = "Stop"
    /\ IF IsSome(state) /\ ~Unwrap(state).paused
       THEN /\ EndSession(now, ok, ElapsedPercent(Unwrap(state)))
            /\ UNCHANGED <<pending_check_in, storage_faulty, check_ins_sent>>
       ELSE /\ ok
            /\ effects' = <<>>
            /\ UNCHANGED <<state, current_session, pending_check_in, sessions,
                           storage_faulty, tray, check_ins_sent, last_ended>>

\* TimerMessage::Stop
Stop(ok) ==
    /\ UNCHANGED trackerVars
    /\ UNCHANGED now
    /\ last_op' = "Stop"
    /\ IF IsSome(state)
       THEN /\ EndSession(now, ok, ElapsedPercent(Unwrap(state)))
            /\ UNCHANGED <<pending_check_in, storage_faulty, check_ins_sent>>
       ELSE /\ ok
            /\ effects' = <<>>
            /\ UNCHANGED <<state, current_session, pending_check_in, sessions,
                           storage_faulty, tray, check_ins_sent, last_ended>>

\* The effects of a pause: TimerMessage::Pause and pause_session_internal
PauseEffects == <<Eff("app_tracker", "Paused", 0), Eff("notifier", "SessionPaused", 0)>>

\* A bug of Pause: the paused flag is not looked at
PauseWithoutGuard ==
    /\ UNCHANGED trackerVars
    /\ UNCHANGED now
    /\ last_op' = "Pause"
    /\ IF IsSome(state)
       THEN /\ state' = Some([Unwrap(state) EXCEPT !.paused = TRUE])
            /\ tray' = "Paused"
            /\ effects' = PauseEffects
       ELSE /\ effects' = <<>>
            /\ UNCHANGED <<state, tray>>
    /\ UNCHANGED <<current_session, pending_check_in, sessions, storage_faulty,
                   check_ins_sent, last_ended>>

\* TimerMessage::Pause
Pause ==
    /\ UNCHANGED trackerVars
    /\ UNCHANGED now
    /\ last_op' = "Pause"
    /\ IF IsSome(state) /\ ~Unwrap(state).paused
       THEN /\ state' = Some([Unwrap(state) EXCEPT !.paused = TRUE])
            /\ tray' = "Paused"
            /\ effects' = PauseEffects
       ELSE /\ effects' = <<>>
            /\ UNCHANGED <<state, tray>>
    /\ UNCHANGED <<current_session, pending_check_in, sessions, storage_faulty,
                   check_ins_sent, last_ended>>

\* A bug of Resume: the paused flag is cleared but last_tick is kept
ResumeStateKeepsLastTick(st, t) == [st EXCEPT !.paused = FALSE]

\* TimerMessage::Resume, the state it leaves: paused = false, last_tick = now
ResumeState(st, t) == [st EXCEPT !.paused = FALSE, !.last_tick = t]

\* TimerMessage::Resume
Resume ==
    /\ UNCHANGED trackerVars
    /\ UNCHANGED now
    /\ last_op' = "Resume"
    /\ IF IsSome(state) /\ Unwrap(state).paused
       THEN /\ state' = Some(ResumeState(Unwrap(state), now))
            /\ tray' = "Active"
            /\ effects' = <<Eff("app_tracker", "Resumed", 0),
                            Eff("notifier", "SessionResumed", 0)>>
       ELSE /\ effects' = <<>>
            /\ UNCHANGED <<state, tray>>
    /\ UNCHANGED <<current_session, pending_check_in, sessions, storage_faulty,
                   check_ins_sent, last_ended>>

\* TimerMessage::GetStatus
GetStatus ==
    /\ UNCHANGED trackerVars
    /\ UNCHANGED now
    /\ last_op' = "GetStatus"
    /\ effects' = <<Eff("reply", IF CurrentStatus.active THEN "active" ELSE "inactive",
                        CurrentStatus.remaining)>>
    /\ UNCHANGED <<state, current_session, pending_check_in, sessions,
                   storage_faulty, tray, check_ins_sent, last_ended>>

\* A bug of the poll: a NotFocused reply is handled like Focused
PollCheckInNeverPauses(pending) ==
    IF pending = None THEN [pending |-> None, not_focused |-> FALSE]
    ELSE IF Unwrap(pending).resp = "Empty"
         THEN [pending |-> pending, not_focused |-> FALSE]
         ELSE [pending |-> None, not_focused |-> FALSE]

\* check_pending_check_in_response: try_recv on the pending receiver.
\* Returns the receiver kept and whether pause_session_internal runs.
PollCheckIn(pending) ==
    IF pending = None THEN [pending |-> None, not_focused |-> FALSE]
    ELSE LET resp == Unwrap(pending).resp
         IN  IF resp = "NotFocused" THEN [pending |-> None, not_focused |-> TRUE]
             ELSE IF resp = "Focused" THEN [pending |-> None, not_focused |-> FALSE]
             ELSE IF resp = "Closed" THEN [pending |-> None, not_focused |-> FALSE]
             ELSE [pending |-> pending, not_focused |-> FALSE]

\* pause_session_internal
PauseSessionInternal(st) == [st EXCEPT !.paused = TRUE]

\* A bug of the check-in dispatch: send_check_in before persist_check_in
CheckInEffectsSendFirst(counted, ok, index) ==
    <<Eff("notifier", "CheckIn", CHECK_IN_THRESHOLDS[index])>>
    \o (IF IsSome(counted)
        THEN <<Eff("repository", IF ok THEN "update" ELSE "update_failed",
                   Unwrap(counted).id)>>
             \o (IF ok THEN <<>> ELSE PersistenceAlert)
        ELSE <<>>)

\* The calls of the check-in dispatch, in order: persist_check_in
\* (repository.update, notify_persistence_error), then send_check_in
CheckInEffects(counted, ok, index) ==
    (IF IsSome(counted)
     THEN <<Eff("repository", IF ok THEN "update" ELSE "update_failed",
                Unwrap(counted).id)>>
          \o (IF ok THEN <<>> ELSE PersistenceAlert)
     ELSE <<>>)
    \o <<Eff("notifier", "CheckIn", CHECK_IN_THRESHOLDS[index])>>

\* The tick branch when the session goes on: update_tray_remaining,
\* check_pending_check_in_response, then the check-in dispatch.
TickRunning(st1, ok) ==
    LET polled == PollCheckIn(pending_check_in)
        pausing == polled.not_focused /\ ~st1.paused
        st2 == IF pausing THEN PauseSessionInternal(st1) ELSE st1
        eff2 == IF pausing THEN PauseEffects ELSE <<>>
        tray2 == IF pausing THEN "Paused" ELSE tray
        next == IF polled.pending = None THEN NextCheckInThreshold(st2) ELSE None
    IN  IF IsSome(next)
        THEN LET index == Unwrap(next)
                 counted == IF IsSome(current_session)
                            THEN Some(SessionIncrementCheckIn(Unwrap(current_session)))
                            ELSE None
             IN  /\ IsSome(counted) \/ ok
                 /\ state' = Some(MarkCheckInDone(st2, index))
                 /\ current_session' = counted
                 /\ sessions' = IF IsSome(counted) /\ ok
                                THEN RepoUpdate(sessions, Unwrap(counted))
                                ELSE sessions
                 /\ tray' = "CheckInPending"
                 /\ pending_check_in' =
                        Some([resp |-> "Empty", percent |-> CHECK_IN_THRESHOLDS[index]])
                 /\ check_ins_sent' = check_ins_sent + 1
                 /\ effects' = eff2 \o CheckInEffects(counted, ok, index)
        ELSE /\ ok
             /\ state' = Some(st2)
             /\ tray' = tray2
             /\ pending_check_in' = polled.pending
             /\ effects' = eff2
             /\ UNCHANGED <<current_session, sessions, check_ins_sent>>

\* A bug of the tick: last_tick is refreshed but remaining is not decremented
TickAdvanceKeepsRemaining(st, t) == [st EXCEPT !.last_tick = t]

\* The tick of a running session whose time is not up:
\* elapsed = last_tick.elapsed(), last_tick = now, remaining -= elapsed
TickAdvance(st, t) ==
    [st EXCEPT !.last_tick = t, !.remaining = @ - (t - st.last_tick)]

\* The tick branch of TimerActor::run
Tick(d, ok) ==
    /\ UNCHANGED trackerVars
    /\ now + d <= MaxTime
    /\ now' = now + d
    /\ last_op' = "Tick"
    /\ IF state = None \/ Unwrap(state).paused
       THEN /\ ok
            /\ effects' = <<>>
            /\ UNCHANGED <<state, current_session, pending_check_in, sessions,
                           storage_faulty, tray, check_ins_sent, last_ended>>
       ELSE LET st == Unwrap(state)
                elapsed == (now + d) - st.last_tick
            IN  IF st.remaining > elapsed
                THEN /\ TickRunning(TickAdvance(st, now + d), ok)
                     /\ UNCHANGED <<storage_faulty, last_ended>>
                ELSE /\ IsSome(current_session) \/ ok
                     /\ EndSession(now + d, ok, 100)
                     /\ UNCHANGED <<pending_check_in, storage_faulty, check_ins_sent>>

\* The Notifier's blocking task answers the outstanding check-in, or the
\* sender is dropped without an answer.
CheckInReply(resp) ==
    /\ UNCHANGED trackerVars
    /\ IsSome(pending_check_in)
    /\ Unwrap(pending_check_in).resp = "Empty"
    /\ pending_check_in' = Some([Unwrap(pending_check_in) EXCEPT !.resp = resp])
    /\ last_op' = "CheckInReply"
    /\ effects' = <<>>
    /\ UNCHANGED <<now, state, current_session, sessions, storage_faulty, tray,
                   check_ins_sent, last_ended>>

\* The session repository starts to return Err (the database is locked,
\* the disk is full): from here on each save or update may fail.
StorageBreaks ==
    /\ ~storage_faulty
    /\ storage_faulty' = TRUE
    /\ last_op' = "StorageBreaks"
    /\ effects' = <<>>
    /\ UNCHANGED <<now, state, current_session, pending_check_in, sessions, tray,
                   check_ins_sent, last_ended>>
    /\ UNCHANGED trackerVars

TimerNext ==
    \/ \E request \in StartRequests, ok \in RepoOutcomes :
           Start(request.duration, request.mode, ok)
    \/ \E ok \in RepoOutcomes : Stop(ok)
    \/ Pause
    \/ Resume
    \/ GetStatus
    \/ \E d \in TickSteps, ok \in RepoOutcomes : Tick(d, ok)
    \/ \E resp \in CheckInResponses \cup {"Closed"} : CheckInReply(resp)

\* ---------------------------------------------------------------------
\* The App Tracker
\* ---------------------------------------------------------------------

\* ---- bounds of the tracker model ----
MaxTicks == 4
MaxReportTicks == 12
MaxTrackerSessions == 2

\* ---- constants of app_tracker.rs ----
POLLING_INTERVAL_SECONDS == 5
SHORT_BURST_THRESHOLD_SECONDS == 15

\* ---- the DistractionConfig the actor is built with ----
Apps == {"editor", "terminal", "slack", "browser"}
whitelist_apps == {"editor", "terminal"}
distraction_apps == {"slack"}
friction_apps == {"slack"}
alert_after_seconds == 10
friction_delay_seconds == 10

\* DistractionConfig::is_whitelisted / is_distraction / is_friction
IsWhitelisted(app) == app \in whitelist_apps
IsDistraction(app) == app \in distraction_apps
IsFriction(app) == app \in friction_apps

\* What the window detector can report on a tick
Samples == {None} \cup {Some(app) : app \in Apps}

FrictionResponses == {"Continue", "BackToWork", "StopSession"}

SessionIds == 1..MaxTrackerSessions
NoSeconds == [app \in Apps |-> 0]

\* sum of the values of a map over the applications
RECURSIVE SumOver(_, _)
SumOver(f, S) ==
    IF S = {} THEN 0
    ELSE LET a == CHOOSE x \in S : TRUE IN f[a] + SumOver(f, S \ {a})

\* A bug of SessionMetrics::new: the total counts the applications, not the bursts
SessionMetricsNewCountsApps(session_id, context_switch_count, short_bursts_by_app) ==
    [session_id |-> session_id,
     context_switch_count |-> context_switch_count,
     total_short_bursts |-> Cardinality({a \in Apps : short_bursts_by_app[a] > 0}),
     short_bursts_by_app |-> short_bursts_by_app]

\* SessionMetrics::new
SessionMetricsNew(session_id, context_switch_count, short_bursts_by_app) ==
    [session_id |-> session_id,
     context_switch_count |-> context_switch_count,
     total_short_bursts |-> SumOver(short_bursts_by_app, Apps),
     short_bursts_by_app |-> short_bursts_by_app]

\* const MIN_SHORT_BURSTS_FOR_SUGGESTION
MIN_SHORT_BURSTS_FOR_SUGGESTION == 3

\* SuggestionReport::from_session_data, the suggestions as a set
SuggestionsFromSessionData(short_burst_count) ==
    {[application_name |-> a, short_burst_count |-> short_burst_count[a]] :
        a \in {x \in Apps : /\ short_burst_count[x] >= MIN_SHORT_BURSTS_FOR_SUGGESTION
                            /\ ~IsDistraction(x)
                            /\ ~IsWhitelisted(x)}}

\* No residence observed yet: the length in ticks of the run of equal samples
\* that ends at the previous sampled tick (run), the same run cut at a Paused
\* (run_unbroken), and per application the runs shorter than the threshold
\* that ended in a switch (ended) or in a counted switch (counted); the
\* distraction alerts pushed during the run cut at a Paused (alerts), and the
\* friction prompts sent and the StopSession answers taken during it (prompts)
NoBursts ==
    [run |-> 0, run_unbroken |-> 0, ended |-> NoSeconds, counted |-> NoSeconds,
     alerts |-> 0, prompts |-> <<>>]

\* The TrackerState that Started builds
NewTrackerState(session_id) ==
    [session_id |-> session_id,
     paused |-> FALSE,
     accumulated |-> NoSeconds,
     current_distraction |-> None,
     distraction_consecutive_seconds |-> 0,
     distraction_alert_sent |-> FALSE,
     last_app |-> None,
     app_consecutive_seconds |-> 0,
     short_burst_count |-> NoSeconds,
     context_switch_count |-> 0,
     current_friction_app |-> None,
     friction_consecutive_seconds |-> 0,
     friction_reminder_count |-> 0,
     friction_response_pending |-> None]

TrackerInit ==
    /\ tracker = None
    /\ app_tracking = [k \in SessionIds \X Apps |-> 0]
    /\ session_metrics = [id \in SessionIds |-> None]
    /\ suggestions_file = None
    /\ started_count = 0
    /\ tick_count = 0
    /\ ticks_sampled = [k \in SessionIds \X Apps |-> 0]
    /\ ended_sessions = {}
    /\ prev_sample = None
    /\ sample_pairs = 0
    /\ prev_unbroken = None
    /\ unbroken_pairs = 0
    /\ bursts = NoBursts
    /\ alert_enabled = TRUE

\* AppTrackerActor::new: an empty channel, nothing spawned
LinkInit ==
    /\ spawned = {}
    /\ mailbox = <<>>
    /\ emitted = 0
    /\ handled = <<>>

\* ---- the values of flux-protocol ----
\* A Request value; duration and mode are the options of StartSession
Req(kind, duration, mode) == [kind |-> kind, duration |-> duration, mode |-> mode]

\* A Response value
Resp(kind, status) == [kind |-> kind, status |-> status]

\* ---------------------------------------------------------------------
\* The wire format of flux-protocol (bincode) and the stored form of
\* FocusMode
\* ---------------------------------------------------------------------

\* ---- bound of the codec model: the largest u64 payload, below 2^31 ----
MaxU64 == 2147483646

\* The strings of the model and their UTF-8 bytes
Labels ==
    {"", "x", "deep-work", "prompting", "ai-assisted", "review", "architecture", "veille"}
Utf8(s) ==
    CASE s = "" -> <<>>
      [] s = "x" -> <<120>>
      [] s = "deep-work" -> <<100, 101, 101, 112, 45, 119, 111, 114, 107>>
      [] s = "ai-assisted" -> <<97, 105, 45, 97, 115, 115, 105, 115, 116, 101, 100>>
      [] s = "review" -> <<114, 101, 118, 105, 101, 119>>
      [] s = "architecture" -> <<97, 114, 99, 104, 105, 116, 101, 99, 116, 117, 114, 101>>
      [] s = "prompting" -> <<112, 114, 111, 109, 112, 116, 105, 110, 103>>
      [] s = "veille" -> <<118, 101, 105, 108, 108, 101>>

\* enum FocusMode
FM(variant, label) == [variant |-> variant, label |-> label]
FocusModes ==
    {FM(v, "") : v \in {"AiAssisted", "Review", "Architecture", "Veille"}}
    \cup {FM("Custom", l) : l \in Labels}

\* FocusMode::as_str
AsStr(m) ==
    CASE m.variant = "AiAssisted" -> "ai-assisted"
      [] m.variant = "Review" -> "review"
      [] m.variant = "Architecture" -> "architecture"
      [] m.variant = "Veille" -> "veille"
      [] OTHER -> m.label

\* A bug of from_stored: the arm of Veille is missing
FromStoredWithoutVeille(value) ==
    CASE value \in {"prompting", "ai-assisted"} -> FM("AiAssisted", "")
      [] value = "review" -> FM("Review", "")
      [] value = "architecture" -> FM("Architecture", "")
      [] OTHER -> FM("Custom", value)

\* FocusMode::from_stored
FromStored(value) ==
    CASE value \in {"prompting", "ai-assisted"} -> FM("AiAssisted", "")
      [] value = "review" -> FM("Review", "")
      [] value = "architecture" -> FM("Architecture", "")
      [] value = "veille" -> FM("Veille", "")
      [] OTHER -> FM("Custom", value)

\* ---- bincode, fixed-width little-endian integers ----
U32LE(v) ==
    <<v % 256, (v \div 256) % 256, (v \div 65536) % 256, (v \div 16777216) % 256>>

\* u64; the values of the model are below 2^31, their four high bytes are 0
U64LE(v) == U32LE(v) \o <<0, 0, 0, 0>>

\* A parse result: the value read and the position after it, or a failure
Parsed(value, next) == [ok |-> TRUE, value |-> value, next |-> next]
Failed == [ok |-> FALSE, value |-> 0, next |-> 0]

ReadU8(b, p) == IF p <= Len(b) THEN Parsed(b[p], p + 1) ELSE Failed

ReadU32(b, p) ==
    IF p + 3 <= Len(b) /\ b[p + 3] < 128
    THEN Parsed(b[p] + 256 * b[p + 1] + 65536 * b[p + 2] + 16777216 * b[p + 3], p + 4)
    ELSE Failed

ReadU64(b, p) ==
    IF p + 7 <= Len(b) /\ b[p + 3] < 128 /\ \A k \in 4..7 : b[p + k] = 0
    THEN Parsed(b[p] + 256 * b[p + 1] + 65536 * b[p + 2] + 16777216 * b[p + 3], p + 8)
    ELSE Failed

\* bool: one byte, 0 or 1
ReadBool(b, p) ==
    IF p <= Len(b) /\ b[p] \in {0, 1} THEN Parsed(b[p] = 1, p + 1) ELSE Failed

\* String: u64 length, then the UTF-8 bytes
WriteString(s) == U64LE(Len(Utf8(s))) \o Utf8(s)
ReadString(b, p) ==
    LET n == ReadU64(b, p)
    IN  IF ~n.ok THEN Failed
        ELSE IF n.next + n.value - 1 > Len(b) THEN Failed
        ELSE LET bytes == SubSeq(b, n.next, n.next + n.value - 1)
             IN  IF \E s \in Labels : Utf8(s) = bytes
                 THEN Parsed(CHOOSE s \in Labels : Utf8(s) = bytes, n.next + n.value)
                 ELSE Failed

\* FocusMode: u32 variant index, then the label of Custom
FocusModeIndex(m) ==
    CASE m.variant = "AiAssisted" -> 0
      [] m.variant = "Review" -> 1
      [] m.variant = "Architecture" -> 2
      [] m.variant = "Veille" -> 3
      [] OTHER -> 4
WriteFocusMode(m) ==
    U32LE(FocusModeIndex(m)) \o (IF m.variant = "Custom" THEN WriteString(m.label) ELSE <<>>)
ReadFocusMode(b, p) ==
    LET tag == ReadU32(b, p)
    IN  IF ~tag.ok THEN Failed
        ELSE CASE tag.value = 0 -> Parsed(FM("AiAssisted", ""), tag.next)
               [] tag.value = 1 -> Parsed(FM("Review", ""), tag.next)
               [] tag.value = 2 -> Parsed(FM("Architecture", ""), tag.next)
               [] tag.value = 3 -> Parsed(FM("Veille", ""), tag.next)
               [] tag.value = 4 ->
                      LET label == ReadString(b, tag.next)
                      IN  IF label.ok THEN Parsed(FM("Custom", label.value), label.next)
                          ELSE Failed
               [] OTHER -> Failed

\* Option<T>: one byte 0, or one byte 1 and the value
WriteOptionU64(o) == IF o = None THEN <<0>> ELSE <<1>> \o U64LE(Unwrap(o))
ReadOptionU64(b, p) ==
    LET tag == ReadU8(b, p)
    IN  IF ~tag.ok THEN Failed
        ELSE IF tag.value = 0 THEN Parsed(None, tag.next)
        ELSE IF tag.value = 1
        THEN LET v == ReadU64(b, tag.next)
             IN  IF v.ok THEN Parsed(Some(v.value), v.next) ELSE Failed
        ELSE Failed
WriteOptionFocusMode(o) == IF o = None THEN <<0>> ELSE <<1>> \o WriteFocusMode(Unwrap(o))
ReadOptionFocusMode(b, p) ==
    LET tag == ReadU8(b, p)
    IN  IF ~tag.ok THEN Failed
        ELSE IF tag.value = 0 THEN Parsed(None, tag.next)
        ELSE IF tag.value = 1
        THEN LET v == ReadFocusMode(b, tag.next)
             IN  IF v.ok THEN Parsed(Some(v.value), v.next) ELSE Failed
        ELSE Failed

\* enum Request, in declaration order
RequestKinds ==
    <<"StartSession", "StopSession", "PauseSession", "ResumeSession", "GetStatus", "Ping">>
IndexIn(kinds, kind) == CHOOSE i \in DOMAIN kinds : kinds[i] = kind

\* bincode::serialize(&request)
SerializeRequest(r) ==
    U32LE(IndexIn(RequestKinds, r.kind) - 1)
    \o (IF r.kind = "StartSession"
        THEN WriteOptionU64(r.duration) \o WriteOptionFocusMode(r.mode)
        ELSE <<>>)

\* bincode::deserialize::<Request>(&bytes)
DeserializeRequestBytes(b) ==
    LET tag == ReadU32(b, 1)
    IN  IF ~tag.ok \/ tag.value + 1 \notin DOMAIN RequestKinds THEN None
        ELSE IF tag.value = 0
        THEN LET duration == ReadOptionU64(b, tag.next)
                 mode == IF duration.ok THEN ReadOptionFocusMode(b, duration.next)
                         ELSE Failed
             IN  IF mode.ok THEN Some(Req("StartSession", duration.value, mode.value))
                 ELSE None
        ELSE Some(Req(RequestKinds[tag.value + 1], None, None))

\* enum Response, in declaration order
ResponseKinds == <<"SessionStatus", "Ok", "Error", "Pong">>

\* The fields of Response::SessionStatus
Status(active, remaining_seconds, mode, paused) ==
    [active |-> active, remaining_seconds |-> remaining_seconds, mode |-> mode,
     paused |-> paused]

WriteBool(v) == IF v THEN <<1>> ELSE <<0>>

\* A bug of the encoding: the length of a string is written as a u32
SerializeResponseShortLength(r) ==
    U32LE(IndexIn(ResponseKinds, r.kind) - 1)
    \o (CASE r.kind = "SessionStatus" ->
                 LET st == Unwrap(r.status)
                 IN  WriteBool(st.active) \o U64LE(st.remaining_seconds)
                     \o WriteOptionFocusMode(st.mode) \o WriteBool(st.paused)
          [] r.kind = "Error" ->
                 U32LE(Len(Utf8(Unwrap(r.status)))) \o Utf8(Unwrap(r.status))
          [] OTHER -> <<>>)

\* bincode::serialize(&response)
SerializeResponse(r) ==
    U32LE(IndexIn(ResponseKinds, r.kind) - 1)
    \o (CASE r.kind = "SessionStatus" ->
                 LET st == Unwrap(r.status)
                 IN  WriteBool(st.active) \o U64LE(st.remaining_seconds)
                     \o WriteOptionFocusMode(st.mode) \o WriteBool(st.paused)
          [] r.kind = "Error" -> WriteString(Unwrap(r.status))
          [] OTHER -> <<>>)

\* bincode::deserialize::<Response>(&bytes)
DeserializeResponse(b) ==
    LET tag == ReadU32(b, 1)
    IN  IF ~tag.ok \/ tag.value + 1 \notin DOMAIN ResponseKinds THEN None
        ELSE IF tag.value = 0
        THEN LET active == ReadBool(b, tag.next)
                 remaining == IF active.ok THEN ReadU64(b, active.next) ELSE Failed
                 mode == IF remaining.ok THEN ReadOptionFocusMode(b, remaining.next)
                         ELSE Failed
                 paused == IF mode.ok THEN ReadBool(b, mode.next) ELSE Failed
             IN  IF paused.ok
                 THEN Some(Resp("SessionStatus",
                                Some(Status(active.value, remaining.value, mode.value,
                                            paused.value))))
                 ELSE None
        ELSE IF tag.value = 2
        THEN LET message == ReadString(b, tag.next)
             IN  IF message.ok THEN Some(Resp("Error", Some(message.value))) ELSE None
        ELSE Some(Resp(ResponseKinds[tag.value + 1], None))

\* ---- the values the codec is applied to ----
U64Values == {0, 25, 256, MaxU64}
OptionU64Values == {None} \cup {Some(v) : v \in U64Values}
OptionFocusModes == {None} \cup {Some(m) : m \in FocusModes}

RequestValues ==
    {Req("StartSession", d, m) : d \in OptionU64Values, m \in OptionFocusModes}
    \cup {Req(k, None, None) :
            k \in {"StopSession", "PauseSession", "ResumeSession", "GetStatus", "Ping"}}

ResponseValues ==
    {Resp("SessionStatus", Some(Status(a, r, m, p))) :
        a \in BOOLEAN, r \in {0, MaxU64}, m \in OptionFocusModes, p \in BOOLEAN}
    \cup {Resp("Ok", None), Resp("Pong", None)}
    \cup {Resp("Error", Some(l)) : l \in Labels}

\* Nothing encoded yet
CodecInit ==
    codec = [stage |-> "idle", type |-> "", value |-> None, wire |-> None, back |-> None]

\* ---- bound of the server model ----
MaxConns == 2

ConnIds == 1..MaxConns

\* A connection no client has opened yet
IdleConn == [stage |-> "idle", request |-> None, reply |-> None, frames |-> <<>>]

\* main before Server::run: nothing bound, no shutdown sent, no client
ServerInit ==
    /\ daemon = "starting"
    /\ socket_file = FALSE
    /\ shutdown_sent = FALSE
    /\ conns = [c \in ConnIds |-> IdleConn]
    /\ timer_mailbox = <<>>

\* ---- bound of the notifier model ----
MaxCheckIns == 2

CheckInIds == 1..MaxCheckIns

\* A check-in nobody asked for yet
NoCheckIn ==
    [stage |-> "unsent", percent |-> 0, shown |-> None, action |-> None,
     responses |-> <<>>]

\* NotifierActor::new: an empty channel
NotifierInit ==
    /\ notifier_mailbox = <<>>
    /\ check_ins = [id \in CheckInIds |-> NoCheckIn]

\* ---- bounds of the digest model ----
\* the clock is read in parts of a second: MaxSubsec + 1 parts make a second
MaxSubsec == 1
MaxWakes == 2

\* ---- the clock of the Digest Scheduler ----
\* An instant is a number of clock parts since a Monday 00:00:00 local time
SubsPerSecond == MaxSubsec + 1
HourSeconds == 60 * 60
DaySeconds == 24 * HourSeconds
DayParts == DaySeconds * SubsPerSecond

\* ---- the DigestConfig and the clock the actor is started with ----
ConfiguredDays ==
    {"monday", "TUESDAY", "Wednesday", "thursday", "friday", "saturday", "Sunday"}
ConfiguredHours == {0, 9, 23}
ClockSeconds == {0, 9 * HourSeconds - 1, 9 * HourSeconds, DaySeconds - 1}
StartInstants ==
    {d * DayParts + sec * SubsPerSecond + sub :
        d \in 0..6, sec \in ClockSeconds, sub \in 0..MaxSubsec}

\* The sessions table when the actor starts at t: empty, or one session
\* started at t or four days before t, ended or still active
StoredSessions(t) ==
    {{}} \cup {{[started_at |-> t - age * DayParts, ended |-> e]} :
                  age \in {0, 4}, e \in BOOLEAN}

\* No Digest Scheduler built yet
DigestInit ==
    digest = [stage |-> "none", enabled |-> FALSE, day |-> "", hour |-> 0,
              now |-> 0, delay |-> 0, wakes |-> 0, stored |-> {}, read_ok |-> TRUE]

\* ---- the inputs of SuggestionReport::from_session_data ----
\* Application names and configured names are sequences of characters
AppNames == {<<"V", "i">>, <<"v", "i", "m">>, <<"e", "d">>, <<"Z", "e", "d">>}
ConfiguredNames == {<<"v", "i">>, <<"e", "d">>}
BurstCounts == {2, 3, 4}
MaxEntries == 3

\* The short-burst maps in the orders a HashMap can iterate them: sequences
\* of entries with distinct keys
BurstMaps ==
    {m \in UNION {[1..n -> [app : AppNames, count : BurstCounts]] :
                     n \in 0..MaxEntries} :
        \A i, j \in DOMAIN m : i # j => m[i].app # m[j].app}

\* from_session_data not called yet
SuggestionInit ==
    suggestion = [stage |-> "idle", short_burst_count |-> <<>>,
                  existing_distractions |-> {}, whitelist_apps |-> {},
                  suggestions |-> <<>>]

Init ==
    /\ TimerInit /\ TrackerInit /\ LinkInit /\ ServerInit /\ CodecInit /\ NotifierInit
    /\ DigestInit /\ SuggestionInit

\* flush_to_repository: save_or_update adds the seconds of every application
\* whose accumulated seconds are positive; a failed call is only logged
FlushToRepository(rows, st, failed) ==
    [k \in SessionIds \X Apps |->
        IF k[1] = st.session_id /\ st.accumulated[k[2]] > 0 /\ k[2] \notin failed
        THEN rows[k] + st.accumulated[k[2]]
        ELSE rows[k]]

\* Outcomes of a flush: the applications whose save_or_update fails
FlushOutcomes == IF storage_faulty THEN SUBSET Apps ELSE {{}}

\* AppTrackerActor::new with the DistractionConfig main loaded: alerting is
\* enabled or not; nothing else has happened yet
TrackerNew(enabled) ==
    /\ last_op = "Init"
    /\ alert_enabled' = enabled
    /\ last_op' = "TrackerNew"
    /\ effects' = <<>>
    /\ UNCHANGED <<tracker, app_tracking, session_metrics, suggestions_file,
                   started_count, tick_count, ticks_sampled, ended_sessions,
                   prev_sample, sample_pairs, prev_unbroken, unbroken_pairs, bursts>>
    /\ UNCHANGED timerVars

\* AppTrackerMessage::Started { session_id }
TrackerStartedFor(session_id) ==
    /\ started_count < MaxTrackerSessions
    /\ started_count' = started_count + 1
    /\ tracker' = Some(NewTrackerState(session_id))
    /\ prev_sample' = None
    /\ sample_pairs' = 0
    /\ prev_unbroken' = None
    /\ unbroken_pairs' = 0
    /\ bursts' = NoBursts
    /\ last_op' = "Started"
    /\ effects' = <<>>
    /\ UNCHANGED <<app_tracking, session_metrics, suggestions_file, tick_count,
                   ticks_sampled, ended_sessions>>
    /\ UNCHANGED alert_enabled
    /\ UNCHANGED timerVars

\* AppTrackerMessage::Started for the session the Timer saved last
TrackerStarted == TrackerStartedFor(started_count + 1)

\* A bug of generate_suggestions: a report already on disk is never replaced
TrackerEndedKeepsReport(failed, ok) ==
    /\ last_op' = "Ended"
    /\ tracker' = None
    /\ IF IsSome(tracker)
       THEN LET st == Unwrap(tracker)
                metrics == SessionMetricsNew(st.session_id, st.context_switch_count,
                                             st.short_burst_count)
                suggestions == SuggestionsFromSessionData(st.short_burst_count)
            IN  /\ app_tracking' = FlushToRepository(app_tracking, st, failed)
                /\ session_metrics' =
                       IF ok THEN [session_metrics EXCEPT ![st.session_id] = Some(metrics)]
                       ELSE session_metrics
                /\ suggestions_file' =
                       IF /\ st.short_burst_count # NoSeconds /\ suggestions # {}
                          /\ suggestions_file = None
                       THEN Some([session_id |-> st.session_id,
                                  context_switch_count |-> st.context_switch_count,
                                  suggestions |-> suggestions])
                       ELSE suggestions_file
                /\ ended_sessions' = ended_sessions \cup {st.session_id}
                /\ effects' = <<Eff("session_metrics",
                                    IF ok THEN "save" ELSE "save_failed",
                                    metrics.total_short_bursts)>>
       ELSE /\ failed = {}
            /\ ok
            /\ effects' = <<>>
            /\ UNCHANGED <<app_tracking, session_metrics, suggestions_file,
                           ended_sessions>>
    /\ UNCHANGED <<started_count, tick_count, ticks_sampled, prev_sample,
                   sample_pairs, prev_unbroken, unbroken_pairs, bursts>>
    /\ UNCHANGED alert_enabled
    /\ UNCHANGED timerVars

\* AppTrackerMessage::Ended: flush_to_repository, save_metrics, generate_suggestions
TrackerEnded(failed, ok) ==
    /\ last_op' = "Ended"
    /\ tracker' = None
    /\ IF IsSome(tracker)
       THEN LET st == Unwrap(tracker)
                metrics == SessionMetricsNew(st.session_id, st.context_switch_count,
                                             st.short_burst_count)
                suggestions == SuggestionsFromSessionData(st.short_burst_count)
            IN  /\ app_tracking' = FlushToRepository(app_tracking, st, failed)
                /\ session_metrics' =
                       IF ok THEN [session_metrics EXCEPT ![st.session_id] = Some(metrics)]
                       ELSE session_metrics
                /\ suggestions_file' =
                       IF st.short_burst_count # NoSeconds /\ suggestions # {}
                       THEN Some([session_id |-> st.session_id,
                                  context_switch_count |-> st.context_switch_count,
                                  suggestions |-> suggestions])
                       ELSE suggestions_file
                /\ ended_sessions' = ended_sessions \cup {st.session_id}
                /\ effects' = <<Eff("session_metrics",
                                    IF ok THEN "save" ELSE "save_failed",
                                    metrics.total_short_bursts)>>
       ELSE /\ failed = {}
            /\ ok
            /\ effects' = <<>>
            /\ UNCHANGED <<app_tracking, session_metrics, suggestions_file,
                           ended_sessions>>
    /\ UNCHANGED <<started_count, tick_count, ticks_sampled, prev_sample,
                   sample_pairs, prev_unbroken, unbroken_pairs, bursts>>
    /\ UNCHANGED alert_enabled
    /\ UNCHANGED timerVars

\* A bug of Paused: the accumulator is flushed but not cleared
PausedStateKeepsAccumulated(st) ==
    [st EXCEPT !.paused = TRUE,
               !.current_distraction = None,
               !.distraction_consecutive_seconds = 0,
               !.distraction_alert_sent = FALSE,
               !.last_app = None,
               !.app_consecutive_seconds = 0]

\* AppTrackerMessage::Paused, the state it leaves
PausedState(st) ==
    [st EXCEPT !.paused = TRUE,
               !.accumulated = NoSeconds,
               !.current_distraction = None,
               !.distraction_consecutive_seconds = 0,
               !.distraction_alert_sent = FALSE,
               !.last_app = None,
               !.app_consecutive_seconds = 0]

\* AppTrackerMessage::Paused
TrackerPaused(failed) ==
    /\ last_op' = "Paused"
    /\ effects' = <<>>
    /\ IF IsSome(tracker)
       THEN /\ app_tracking' = FlushToRepository(app_tracking, Unwrap(tracker), failed)
            /\ tracker' = Some(PausedState(Unwrap(tracker)))
            /\ prev_unbroken' = None
            /\ bursts' = [bursts EXCEPT !.run_unbroken = 0, !.alerts = 0,
                                        !.prompts = <<>>]
       ELSE /\ failed = {}
            /\ UNCHANGED <<tracker, app_tracking, prev_unbroken, bursts>>
    /\ UNCHANGED <<session_metrics, suggestions_file, started_count, tick_count,
                   ticks_sampled, ended_sessions, prev_sample, sample_pairs,
                   unbroken_pairs>>
    /\ UNCHANGED alert_enabled
    /\ UNCHANGED timerVars

\* AppTrackerMessage::Resumed
TrackerResumed ==
    /\ last_op' = "Resumed"
    /\ effects' = <<>>
    /\ tracker' = IF IsSome(tracker)
                  THEN Some([Unwrap(tracker) EXCEPT !.paused = FALSE])
                  ELSE tracker
    /\ UNCHANGED <<app_tracking, session_metrics, suggestions_file, started_count,
                   tick_count, ticks_sampled, ended_sessions, prev_sample,
                   sample_pairs, prev_unbroken, unbroken_pairs, bursts>>
    /\ UNCHANGED alert_enabled
    /\ UNCHANGED timerVars

\* A bug of the short-burst test: a residence of exactly the threshold counts
IsShortBurstInclusive(seconds) ==
    seconds > 0 /\ seconds <= SHORT_BURST_THRESHOLD_SECONDS

\* track_context_switch, the short-burst test on app_consecutive_seconds
IsShortBurst(seconds) ==
    seconds > 0 /\ seconds < SHORT_BURST_THRESHOLD_SECONDS

\* A bug of track_context_switch: a whitelisted pair is counted like any other
TrackContextSwitchCountsWhitelisted(st, app) ==
    IF st.last_app = Some(app)
    THEN [st EXCEPT !.app_consecutive_seconds = @ + POLLING_INTERVAL_SECONDS]
    ELSE LET short == IsShortBurst(st.app_consecutive_seconds)
             st1 == IF IsSome(st.last_app)
                    THEN [st EXCEPT
                            !.context_switch_count = @ + 1,
                            !.short_burst_count[Unwrap(st.last_app)] =
                                IF short THEN @ + 1 ELSE @]
                    ELSE st
         IN  [st1 EXCEPT !.last_app = Some(app),
                         !.app_consecutive_seconds = POLLING_INTERVAL_SECONDS]

\* A bug of track_context_switch: the short burst is counted outside the
\* branch that counts the switch
TrackContextSwitchBurstOutsideSwitch(st, app) ==
    IF st.last_app = Some(app)
    THEN [st EXCEPT !.app_consecutive_seconds = @ + POLLING_INTERVAL_SECONDS]
    ELSE LET both_whitelisted ==
                 /\ IsSome(st.last_app)
                 /\ IsWhitelisted(Unwrap(st.last_app))
                 /\ IsWhitelisted(app)
             short == IsShortBurst(st.app_consecutive_seconds)
             st1 == IF IsSome(st.last_app)
                    THEN [st EXCEPT
                            !.context_switch_count =
                                IF both_whitelisted THEN @ ELSE @ + 1,
                            !.short_burst_count[Unwrap(st.last_app)] =
                                IF short THEN @ + 1 ELSE @]
                    ELSE st
         IN  [st1 EXCEPT !.last_app = Some(app),
                         !.app_consecutive_seconds = POLLING_INTERVAL_SECONDS]

\* track_context_switch
TrackContextSwitch(st, app) ==
    IF st.last_app = Some(app)
    THEN [st EXCEPT !.app_consecutive_seconds = @ + POLLING_INTERVAL_SECONDS]
    ELSE LET both_whitelisted ==
                 /\ IsSome(st.last_app)
                 /\ IsWhitelisted(Unwrap(st.last_app))
                 /\ IsWhitelisted(app)
             short == IsShortBurst(st.app_consecutive_seconds)
             st1 == IF IsSome(st.last_app) /\ ~both_whitelisted
                    THEN [st EXCEPT
                            !.context_switch_count = @ + 1,
                            !.short_burst_count[Unwrap(st.last_app)] =
                                IF short THEN @ + 1 ELSE @]
                    ELSE st
         IN  [st1 EXCEPT !.last_app = Some(app),
                         !.app_consecutive_seconds = POLLING_INTERVAL_SECONDS]

\* A bug of maybe_send_distraction_alert: the alert-sent flag is not consulted
DistractionAlertDueEveryTick(st) ==
    /\ alert_enabled
    /\ st.distraction_consecutive_seconds >= alert_after_seconds
    /\ IsSome(st.current_distraction)

\* maybe_send_distraction_alert: whether the alert is sent
DistractionAlertDue(st) ==
    /\ alert_enabled
    /\ ~st.distraction_alert_sent
    /\ st.distraction_consecutive_seconds >= alert_after_seconds
    /\ IsSome(st.current_distraction)

\* track_distraction up to maybe_send_distraction_alert
TrackDistractionCount(st, app) ==
    IF IsDistraction(app)
    THEN IF st.current_distraction = Some(app)
         THEN [st EXCEPT !.distraction_consecutive_seconds =
                             @ + POLLING_INTERVAL_SECONDS]
         ELSE [st EXCEPT !.current_distraction = Some(app),
                         !.distraction_consecutive_seconds = POLLING_INTERVAL_SECONDS,
                         !.distraction_alert_sent = FALSE]
    ELSE [st EXCEPT !.current_distraction = None,
                    !.distraction_consecutive_seconds = 0,
                    !.distraction_alert_sent = FALSE]

\* track_distraction
TrackDistraction(st, app) ==
    LET st1 == TrackDistractionCount(st, app)
    IN  IF IsDistraction(app) /\ DistractionAlertDue(st1)
        THEN [st1 EXCEPT !.distraction_alert_sent = TRUE]
        ELSE st1

\* The alert track_distraction sends on this tick
DistractionEffects(st, app) ==
    LET st1 == TrackDistractionCount(st, app)
    IN  IF IsDistraction(app) /\ DistractionAlertDue(st1)
        THEN <<Eff("notifier", "DistractionAlert", st1.distraction_consecutive_seconds)>>
        ELSE <<>>

\* check_friction_response: try_recv on the pending friction receiver
CheckFrictionResponse(st) ==
    IF st.friction_response_pending = None THEN st
    ELSE LET resp == Unwrap(st.friction_response_pending).resp
         IN  IF resp \in {"Continue", "BackToWork", "Closed"}
             THEN [st EXCEPT !.friction_response_pending = None,
                             !.friction_consecutive_seconds = 0]
             ELSE IF resp = "StopSession"
             THEN [st EXCEPT !.friction_response_pending = None,
                             !.friction_consecutive_seconds = 0,
                             !.friction_reminder_count = 0]
             ELSE st

\* maybe_send_friction_notification: whether a prompt is sent
FrictionPromptDue(st) ==
    /\ st.friction_response_pending = None
    /\ st.friction_consecutive_seconds >= friction_delay_seconds
    /\ IsSome(st.current_friction_app)

\* track_friction up to maybe_send_friction_notification
TrackFrictionCount(st, app) ==
    LET st1 == CheckFrictionResponse(st)
    IN  IF ~IsFriction(app)
        THEN [st1 EXCEPT !.current_friction_app = None,
                         !.friction_consecutive_seconds = 0,
                         !.friction_reminder_count = 0]
        ELSE IF st1.current_friction_app = Some(app)
        THEN [st1 EXCEPT !.friction_consecutive_seconds = @ + POLLING_INTERVAL_SECONDS]
        ELSE [st1 EXCEPT !.current_friction_app = Some(app),
                         !.friction_consecutive_seconds = POLLING_INTERVAL_SECONDS,
                         !.friction_reminder_count = 0]

\* track_friction
TrackFriction(st, app) ==
    LET st2 == TrackFrictionCount(st, app)
    IN  IF IsFriction(app) /\ FrictionPromptDue(st2)
        THEN [st2 EXCEPT !.friction_response_pending = Some([resp |-> "Empty"]),
                         !.friction_reminder_count = @ + 1,
                         !.friction_consecutive_seconds = 0]
        ELSE st2

\* The prompt track_friction sends on this tick
FrictionEffects(st, app) ==
    LET st2 == TrackFrictionCount(st, app)
    IN  IF IsFriction(app) /\ FrictionPromptDue(st2)
        THEN IF st2.friction_reminder_count >= 1
             THEN <<Eff("notifier", "FrictionEscalated", 0)>>
             ELSE <<Eff("notifier", "FrictionReminder", st2.friction_consecutive_seconds)>>
        ELSE <<>>

\* poll_active_window, the part after the sample is taken
PollSample(st, app) ==
    LET st0 == [st EXCEPT !.accumulated[app] = @ + POLLING_INTERVAL_SECONDS]
        st1 == TrackContextSwitch(st0, app)
        st2 == TrackDistraction(st1, app)
    IN  TrackFriction(st2, app)

\* Whether two applications sampled one after the other count as a switch
SwitchPair(prev, app) ==
    /\ IsSome(prev)
    /\ Unwrap(prev) # app
    /\ ~(IsWhitelisted(Unwrap(prev)) /\ IsWhitelisted(app))

\* Whether a run of that many sampled ticks stayed under the short-burst threshold
ShortResidence(ticks) ==
    ticks * POLLING_INTERVAL_SECONDS < SHORT_BURST_THRESHOLD_SECONDS

\* The StopSession answer that check_friction_response takes on this tick
PolledStopSession ==
    IF /\ IsSome(tracker)
       /\ Unwrap(tracker).friction_response_pending = Some([resp |-> "StopSession"])
    THEN <<"StopSession">>
    ELSE <<>>

\* The friction prompts among the messages of a tick, by kind
SentPrompts(effs) ==
    LET sent == SelectSeq(effs, LAMBDA e :
                    e.msg \in {"FrictionReminder", "FrictionEscalated"})
    IN  [i \in 1..Len(sent) |-> sent[i].msg]

\* The residences after a tick that samples app
ObserveResidence(app) ==
    [run |-> IF prev_sample = Some(app) THEN bursts.run + 1 ELSE 1,
     run_unbroken |-> IF prev_unbroken = Some(app) THEN bursts.run_unbroken + 1 ELSE 1,
     ended |->
        IF IsSome(prev_sample) /\ Unwrap(prev_sample) # app /\ ShortResidence(bursts.run)
        THEN [bursts.ended EXCEPT ![Unwrap(prev_sample)] = @ + 1]
        ELSE bursts.ended,
     counted |->
        IF SwitchPair(prev_unbroken, app) /\ ShortResidence(bursts.run_unbroken)
        THEN [bursts.counted EXCEPT ![Unwrap(prev_unbroken)] = @ + 1]
        ELSE bursts.counted,
     alerts |->
        (IF prev_unbroken = Some(app) THEN bursts.alerts ELSE 0)
            + Len(SelectSeq(effects', LAMBDA e : e.msg = "DistractionAlert")),
     prompts |->
        (IF prev_unbroken = Some(app) THEN bursts.prompts ELSE <<>>)
            \o PolledStopSession \o SentPrompts(effects')]

\* poll_active_window: one sample of the active window
PollActiveWindow(sample) ==
    /\ last_op' = "TrackerTick"
    /\ IF IsSome(tracker) /\ ~Unwrap(tracker).paused /\ IsSome(sample)
       THEN LET st == Unwrap(tracker)
                app == Unwrap(sample)
                st1 == TrackContextSwitch(
                           [st EXCEPT !.accumulated[app] = @ + POLLING_INTERVAL_SECONDS],
                           app)
                st2 == TrackDistraction(st1, app)
            IN  /\ tracker' = Some(PollSample(st, app))
                /\ effects' = DistractionEffects(st1, app) \o FrictionEffects(st2, app)
                /\ ticks_sampled' =
                       [ticks_sampled EXCEPT ![<<st.session_id, app>>] = @ + 1]
                /\ prev_sample' = Some(app)
                /\ sample_pairs' =
                       IF SwitchPair(prev_sample, app) THEN sample_pairs + 1
                       ELSE sample_pairs
                /\ prev_unbroken' = Some(app)
                /\ unbroken_pairs' =
                       IF SwitchPair(prev_unbroken, app) THEN unbroken_pairs + 1
                       ELSE unbroken_pairs
                /\ bursts' = ObserveResidence(app)
       ELSE /\ sample = None
            /\ effects' = <<>>
            /\ UNCHANGED <<tracker, ticks_sampled, prev_sample, sample_pairs,
                           prev_unbroken, unbroken_pairs, bursts>>
    /\ UNCHANGED <<app_tracking, session_metrics, suggestions_file, started_count,
                   ended_sessions>>
    /\ UNCHANGED alert_enabled
    /\ UNCHANGED timerVars

\* The Notifier's blocking task answers the outstanding friction prompt, or
\* the sender is dropped without an answer.
FrictionReply(resp) ==
    /\ IsSome(tracker)
    /\ IsSome(Unwrap(tracker).friction_response_pending)
    /\ Unwrap(Unwrap(tracker).friction_response_pending).resp = "Empty"
    /\ tracker' = Some([Unwrap(tracker) EXCEPT
                            !.friction_response_pending = Some([resp |-> resp])])
    /\ last_op' = "FrictionReply"
    /\ effects' = <<>>
    /\ UNCHANGED <<app_tracking, session_metrics, suggestions_file, started_count,
                   tick_count, ticks_sampled, ended_sessions, prev_sample,
                   sample_pairs, prev_unbroken, unbroken_pairs, bursts>>
    /\ UNCHANGED alert_enabled
    /\ UNCHANGED timerVars

\* poll_active_window on the 5 s interval
TrackerTick(sample) ==
    /\ tick_count < MaxTicks
    /\ tick_count' = tick_count + 1
    /\ PollActiveWindow(sample)

\* The windows sampled over sessions long enough to fill a suggestion report:
\* a distraction and an application that is neither distraction nor whitelisted
ReportApps == {"slack", "browser"}

\* poll_active_window on the 5 s interval, over the longer sessions
ReportTick(sample) ==
    /\ tick_count < MaxReportTicks
    /\ tick_count' = tick_count + 1
    /\ PollActiveWindow(sample)

\* Sessions started, sampled and ended with a reliable repository
ReportNext ==
    \/ TrackerStarted
    \/ TrackerEnded({}, TRUE)
    \/ \E app \in ReportApps : ReportTick(Some(app))

TrackerNext ==
    \/ \E enabled \in BOOLEAN : TrackerNew(enabled)
    \/ TrackerStarted
    \/ \E failed \in FlushOutcomes, ok \in RepoOutcomes : TrackerEnded(failed, ok)
    \/ \E failed \in FlushOutcomes : TrackerPaused(failed)
    \/ TrackerResumed
    \/ \E sample \in Samples : TrackerTick(sample)
    \/ \E resp \in FrictionResponses \cup {"Closed"} : FrictionReply(resp)

\* ---------------------------------------------------------------------
\* The link from the Timer to the App Tracker: AppTrackerHandle
\* ---------------------------------------------------------------------

\* ---- bound of the link model ----
MaxEmitted == 4

\* The calls of a handler that go through the AppTrackerHandle
LifecycleCalls(effs) == SelectSeq(effs, LAMBDA e : e.to = "app_tracker")

\* AppTrackerHandle::send_session_*: every call spawns a task that will send
SpawnSends(effs) ==
    LET calls == LifecycleCalls(effs)
    IN  /\ spawned' = spawned \cup
                          {[seq |-> emitted + i, msg |-> calls[i].msg, arg |-> calls[i].arg] :
                              i \in 1..Len(calls)}
        /\ emitted' = emitted + Len(calls)
        /\ UNCHANGED <<mailbox, handled>>
        /\ UNCHANGED <<serverVars, codecVars, digestVars, suggestionVars, notifierVars>>

\* TimerActor::run handles Start, Stop, Pause or Resume; its calls to the
\* AppTrackerHandle spawn their tasks
TimerLifecycle ==
    /\ emitted < MaxEmitted
    /\ \/ \E r \in StartRequests, ok \in RepoOutcomes : Start(r.duration, r.mode, ok)
       \/ \E ok \in RepoOutcomes : Stop(ok)
       \/ Pause
       \/ Resume
    /\ UNCHANGED repo_failures
    /\ SpawnSends(effects')

\* A spawned task runs: sender.send(message).await puts the message in the channel
TaskSends(task) ==
    /\ task \in spawned
    /\ spawned' = spawned \ {task}
    /\ mailbox' = Append(mailbox, task)
    /\ last_op' = "TaskSends"
    /\ effects' = <<>>
    /\ UNCHANGED <<emitted, handled>>
    /\ UNCHANGED <<timerVars, trackerVars, serverVars, codecVars, digestVars, suggestionVars, notifierVars>>

\* AppTrackerActor::run: receiver.recv() takes the oldest message, handle_message
TrackerReceives ==
    /\ mailbox # <<>>
    /\ mailbox' = Tail(mailbox)
    /\ handled' = Append(handled, Head(mailbox).seq)
    /\ UNCHANGED <<spawned, emitted>>
    /\ UNCHANGED <<serverVars, codecVars, digestVars, suggestionVars, notifierVars>>
    /\ LET m == Head(mailbox)
       IN  \/ m.msg = "Started" /\ TrackerStartedFor(m.arg)
           \/ m.msg = "Ended"
                 /\ \E failed \in FlushOutcomes, ok \in RepoOutcomes : TrackerEnded(failed, ok)
           \/ m.msg = "Paused" /\ \E failed \in FlushOutcomes : TrackerPaused(failed)
           \/ m.msg = "Resumed" /\ TrackerResumed

LinkNext ==
    \/ TimerLifecycle
    \/ \E task \in spawned : TaskSends(task)
    \/ TrackerReceives

\* ---------------------------------------------------------------------
\* The IPC server (flux-daemon/src/server.rs) and main's shutdown
\* ---------------------------------------------------------------------

\* ---- constants of server.rs ----
DEFAULT_DURATION_MINUTES == 25

\* The requests of flux-protocol that clients send in this model
Requests ==
    {Req(k, None, None) :
        k \in {"Ping", "GetStatus", "StartSession", "StopSession", "PauseSession",
               "ResumeSession"}}
    \cup {Req("StartSession", Some(1), Some("Review"))}

\* The Shutdown request of the CLI (flux-cli stop.rs), absent from the
\* protocol crate at hand
ShutdownRequest == Req("Shutdown", None, None)

\* A payload that bincode::deserialize rejects
Undecodable == Req("Undecodable", None, None)

\* What a client can put in its request frame
ClientPayloads == Requests \cup {ShutdownRequest, Undecodable}

\* bincode::deserialize::<Request>(&payload) as handle_connection uses it
DeserializeRequest(payload) ==
    IF payload = Undecodable THEN None ELSE Some(payload)

\* A bug of handle_request: Ping is answered like a command
ImmediateResponseAnswersOk(request) == Resp("Ok", None)

\* handle_request for the requests answered without waiting for the Timer:
\* Ping, and the commands whose send to the Timer's channel succeeded
ImmediateResponse(request) ==
    IF request.kind = "Ping" THEN Resp("Pong", None) ELSE Resp("Ok", None)

\* handle_request: the TimerMessage a command puts in the Timer's channel
TimerMessageOf(c, request) ==
    [msg |-> CASE request.kind = "StartSession" -> "Start"
               [] request.kind = "StopSession" -> "Stop"
               [] request.kind = "PauseSession" -> "Pause"
               [] request.kind = "ResumeSession" -> "Resume"
               [] OTHER -> "GetStatus",
     conn |-> c,
     duration |-> (IF IsSome(request.duration) THEN Unwrap(request.duration)
                   ELSE DEFAULT_DURATION_MINUTES) * 60,
     mode |-> IF IsSome(request.mode) THEN Unwrap(request.mode) ELSE "AiAssisted"]

\* An earlier daemon died without unlinking its socket file
StaleSocketLeft ==
    /\ daemon = "starting"
    /\ ~socket_file
    /\ socket_file' = TRUE
    /\ last_op' = "StaleSocketLeft"
    /\ effects' = <<>>
    /\ UNCHANGED <<daemon, shutdown_sent, conns, timer_mailbox>>
    /\ UNCHANGED <<timerVars, trackerVars, linkVars, codecVars, digestVars, suggestionVars, notifierVars>>

\* Server::run up to the loop: cleanup_stale_socket, then the listener
BindEffects(stale) ==
    (IF stale THEN <<Eff("fs", "remove_file", 0)>> ELSE <<>>) \o <<Eff("fs", "bind", 0)>>

\* Server::run up to the loop
ServerRunBinds ==
    /\ daemon = "starting"
    /\ daemon' = "listening"
    /\ socket_file' = TRUE
    /\ last_op' = "ServerRunBinds"
    /\ effects' = BindEffects(socket_file)
    /\ UNCHANGED <<shutdown_sent, conns, timer_mailbox>>
    /\ UNCHANGED <<timerVars, trackerVars, linkVars, codecVars, digestVars, suggestionVars, notifierVars>>

\* A client connects and writes its request frame (DaemonClient::send)
ClientConnects(c, payload) ==
    /\ daemon = "listening"
    /\ conns[c].stage = "idle"
    /\ conns' = [conns EXCEPT ![c] = [@ EXCEPT !.stage = "pending",
                                               !.request = Some(payload)]]
    /\ last_op' = "ClientConnects"
    /\ effects' = <<>>
    /\ UNCHANGED <<daemon, socket_file, shutdown_sent, timer_mailbox>>
    /\ UNCHANGED <<timerVars, trackerVars, linkVars, codecVars, digestVars, suggestionVars, notifierVars>>

\* A bug of Server::run: connections are taken although the loop was left
ServerAcceptsAfterReturn(c) ==
    /\ daemon \in {"listening", "returned"}
    /\ conns[c].stage = "pending"
    /\ conns' = [conns EXCEPT ![c].stage = "accepted"]
    /\ last_op' = "ServerAccepts"
    /\ effects' = <<>>
    /\ UNCHANGED <<daemon, socket_file, shutdown_sent, timer_mailbox>>
    /\ UNCHANGED <<timerVars, trackerVars, linkVars, codecVars, digestVars, suggestionVars, notifierVars>>

\* Server::run, the accept branch: spawns handle_connection
ServerAccepts(c) ==
    /\ daemon = "listening"
    /\ conns[c].stage = "pending"
    /\ conns' = [conns EXCEPT ![c].stage = "accepted"]
    /\ last_op' = "ServerAccepts"
    /\ effects' = <<>>
    /\ UNCHANGED <<daemon, socket_file, shutdown_sent, timer_mailbox>>
    /\ UNCHANGED <<timerVars, trackerVars, linkVars, codecVars, digestVars, suggestionVars, notifierVars>>

\* The calls of handle_connection once the response is built: the response
\* frame is written, then the stream is dropped
WriteAndClose(c) == <<Eff("stream", "write_frame", c), Eff("stream", "drop", c)>>

\* handle_connection: read the frame, deserialize, handle_request, write the
\* response frame; a GetStatus handler waits for the Timer's reply
HandleConnection(c) ==
    /\ daemon # "exited"
    /\ conns[c].stage = "accepted"
    /\ Unwrap(conns[c].request) # ShutdownRequest
    /\ last_op' = "HandleConnection"
    /\ LET decoded == DeserializeRequest(Unwrap(conns[c].request))
       IN  IF decoded = None
           THEN /\ conns' = [conns EXCEPT ![c].stage = "closed"]
                /\ effects' = <<Eff("stream", "drop", c)>>
                /\ UNCHANGED timer_mailbox
           ELSE LET request == Unwrap(decoded)
                IN  IF request.kind = "Ping"
                    THEN /\ conns' = [conns EXCEPT
                                         ![c].stage = "closed",
                                         ![c].frames = <<ImmediateResponse(request)>>]
                         /\ effects' = WriteAndClose(c)
                         /\ UNCHANGED timer_mailbox
                    ELSE IF request.kind = "GetStatus"
                    THEN /\ conns' = [conns EXCEPT ![c].stage = "waiting"]
                         /\ timer_mailbox' =
                                Append(timer_mailbox, TimerMessageOf(c, request))
                         /\ effects' = <<Eff("timer", "GetStatus", c)>>
                    ELSE /\ conns' = [conns EXCEPT
                                         ![c].stage = "closed",
                                         ![c].frames = <<ImmediateResponse(request)>>]
                         /\ timer_mailbox' =
                                Append(timer_mailbox, TimerMessageOf(c, request))
                         /\ effects' =
                                <<Eff("timer", TimerMessageOf(c, request).msg, c)>>
                                \o WriteAndClose(c)
    /\ UNCHANGED <<daemon, socket_file, shutdown_sent>>
    /\ UNCHANGED <<timerVars, trackerVars, linkVars, codecVars, digestVars, suggestionVars, notifierVars>>

\* handle_connection for a Shutdown request: answered Ok, then the shutdown
\* broadcast is sent
HandleShutdownRequest(c) ==
    /\ daemon # "exited"
    /\ conns[c].stage = "accepted"
    /\ Unwrap(conns[c].request) = ShutdownRequest
    /\ conns' = [conns EXCEPT ![c].stage = "closed",
                              ![c].frames = <<Resp("Ok", None)>>]
    /\ shutdown_sent' = TRUE
    /\ last_op' = "HandleShutdownRequest"
    /\ effects' = WriteAndClose(c) \o <<Eff("shutdown", "send", 0)>>
    /\ UNCHANGED <<daemon, socket_file, timer_mailbox>>
    /\ UNCHANGED <<timerVars, trackerVars, linkVars, codecVars, digestVars, suggestionVars, notifierVars>>

\* TimerActor::run: receiver.recv() takes the oldest message of the channel
TimerReceives ==
    /\ daemon # "exited"
    /\ timer_mailbox # <<>>
    /\ timer_mailbox' = Tail(timer_mailbox)
    /\ LET m == Head(timer_mailbox)
       IN  \/ /\ m.msg = "Start"
              /\ \E ok \in RepoOutcomes : Start(m.duration, m.mode, ok)
              /\ UNCHANGED conns
           \/ /\ m.msg = "Stop"
              /\ \E ok \in RepoOutcomes : Stop(ok)
              /\ UNCHANGED conns
           \/ m.msg = "Pause" /\ Pause /\ UNCHANGED conns
           \/ m.msg = "Resume" /\ Resume /\ UNCHANGED conns
           \/ /\ m.msg = "GetStatus"
              /\ GetStatus
              /\ conns' = [conns EXCEPT ![m.conn].reply = Some(CurrentStatus)]
    /\ UNCHANGED <<daemon, socket_file, shutdown_sent, repo_failures>>
    /\ UNCHANGED <<linkVars, codecVars, digestVars, suggestionVars, notifierVars>>

\* handle_request for GetStatus once the Timer replied: SessionStatus
HandlerGetsStatus(c) ==
    /\ daemon # "exited"
    /\ conns[c].stage = "waiting"
    /\ IsSome(conns[c].reply)
    /\ conns' = [conns EXCEPT
                    ![c].stage = "closed",
                    ![c].frames = <<Resp("SessionStatus", conns[c].reply)>>]
    /\ last_op' = "HandlerGetsStatus"
    /\ effects' = WriteAndClose(c)
    /\ UNCHANGED <<daemon, socket_file, shutdown_sent, timer_mailbox>>
    /\ UNCHANGED <<timerVars, trackerVars, linkVars, codecVars, digestVars, suggestionVars, notifierVars>>

\* main: SIGINT, or Quit from the tray, sends the shutdown broadcast
BroadcastShutdown ==
    /\ daemon \in {"starting", "listening"}
    /\ ~shutdown_sent
    /\ shutdown_sent' = TRUE
    /\ last_op' = "BroadcastShutdown"
    /\ effects' = <<Eff("shutdown", "send", 0)>>
    /\ UNCHANGED <<daemon, socket_file, conns, timer_mailbox>>
    /\ UNCHANGED <<timerVars, trackerVars, linkVars, codecVars, digestVars, suggestionVars, notifierVars>>

\* A bug of Server::run: the loop is left without cleanup_socket
SocketAfterRunKept(exists) == exists

\* Server::run after the loop: cleanup_socket removes the file
SocketAfterRun(exists) == FALSE

\* Server::run, the shutdown branch: break, cleanup_socket, return
ServerRunReturns ==
    /\ daemon = "listening"
    /\ shutdown_sent
    /\ daemon' = "returned"
    /\ socket_file' = SocketAfterRun(socket_file)
    /\ last_op' = "ServerRunReturns"
    /\ effects' = <<Eff("fs", "remove_file", 0)>>
    /\ UNCHANGED <<shutdown_sent, conns, timer_mailbox>>
    /\ UNCHANGED <<timerVars, trackerVars, linkVars, codecVars, digestVars, suggestionVars, notifierVars>>

\* main after server.run: std::process::exit(0) ends every task
ProcessExit ==
    /\ daemon = "returned"
    /\ daemon' = "exited"
    /\ conns' = [c \in ConnIds |->
                    IF conns[c].stage \in {"accepted", "waiting"}
                    THEN [conns[c] EXCEPT !.stage = "aborted"]
                    ELSE conns[c]]
    /\ last_op' = "ProcessExit"
    /\ effects' = <<>>
    /\ UNCHANGED <<socket_file, shutdown_sent, timer_mailbox>>
    /\ UNCHANGED <<timerVars, trackerVars, linkVars, codecVars, digestVars, suggestionVars, notifierVars>>

ServerNext ==
    \/ StaleSocketLeft
    \/ ServerRunBinds
    \/ \E c \in ConnIds, payload \in ClientPayloads : ClientConnects(c, payload)
    \/ \E c \in ConnIds : ServerAccepts(c)
    \/ \E c \in ConnIds : HandleConnection(c)
    \/ \E c \in ConnIds : HandleShutdownRequest(c)
    \/ TimerReceives
    \/ \E c \in ConnIds : HandlerGetsStatus(c)
    \/ BroadcastShutdown
    \/ ServerRunReturns
    \/ ProcessExit

\* ---------------------------------------------------------------------
\* The codec applied to a value
\* ---------------------------------------------------------------------

\* A value is chosen to be sent or stored
CodecPick(type, value) ==
    /\ codec.stage = "idle"
    /\ codec' = [stage |-> "picked", type |-> type, value |-> Some(value),
                 wire |-> None, back |-> None]
    /\ last_op' = "CodecPick"
    /\ effects' = <<>>
    /\ UNCHANGED <<timerVars, trackerVars, linkVars, serverVars, notifierVars, digestVars, suggestionVars>>

\* bincode::serialize / FocusMode::as_str
CodecEncode ==
    /\ codec.stage = "picked"
    /\ codec' = [codec EXCEPT
                    !.stage = "encoded",
                    !.wire = Some(CASE codec.type = "Request" ->
                                           SerializeRequest(Unwrap(codec.value))
                                    [] codec.type = "Response" ->
                                           SerializeResponse(Unwrap(codec.value))
                                    [] OTHER -> AsStr(Unwrap(codec.value)))]
    /\ last_op' = "CodecEncode"
    /\ effects' = <<>>
    /\ UNCHANGED <<timerVars, trackerVars, linkVars, serverVars, notifierVars, digestVars, suggestionVars>>

\* bincode::deserialize / FocusMode::from_stored
CodecDecode ==
    /\ codec.stage = "encoded"
    /\ codec' = [codec EXCEPT
                    !.stage = "decoded",
                    !.back = CASE codec.type = "Request" ->
                                      DeserializeRequestBytes(Unwrap(codec.wire))
                               [] codec.type = "Response" ->
                                      DeserializeResponse(Unwrap(codec.wire))
                               [] OTHER -> Some(FromStored(Unwrap(codec.wire)))]
    /\ last_op' = "CodecDecode"
    /\ effects' = <<>>
    /\ UNCHANGED <<timerVars, trackerVars, linkVars, serverVars, notifierVars, digestVars, suggestionVars>>

CodecNext ==
    \/ \E r \in RequestValues : CodecPick("Request", r)
    \/ \E r \in ResponseValues : CodecPick("Response", r)
    \/ \E m \in FocusModes : CodecPick("FocusMode", m)
    \/ CodecEncode
    \/ CodecDecode

\* ---------------------------------------------------------------------
\* The Session value and its methods, called in any order
\* (flux-core/src/domain/session.rs); the value is held in current_session
\* ---------------------------------------------------------------------

\* The rest of the Timer is not involved
SessionFrame ==
    /\ effects' = <<>>
    /\ UNCHANGED <<state, pending_check_in, sessions, storage_faulty, tray,
                   check_ins_sent, last_ended, repo_failures>>
    /\ UNCHANGED <<trackerVars, linkVars, serverVars, codecVars, digestVars, suggestionVars, notifierVars>>

\* Utc::now() moves on
ClockAdvances(d) ==
    /\ now + d <= MaxTime
    /\ now' = now + d
    /\ last_op' = "ClockAdvances"
    /\ UNCHANGED current_session
    /\ SessionFrame

\* let session = Session::start(mode)
ValueStart(mode) ==
    /\ current_session' = Some(SessionStart(mode, now))
    /\ last_op' = "ValueStart"
    /\ UNCHANGED now
    /\ SessionFrame

\* session.increment_check_in()
ValueIncrementCheckIn ==
    /\ IsSome(current_session)
    /\ Unwrap(current_session).check_in_count < MaxIncrements
    /\ current_session' = Some(SessionIncrementCheckIn(Unwrap(current_session)))
    /\ last_op' = "ValueIncrementCheckIn"
    /\ UNCHANGED now
    /\ SessionFrame

\* session.end(), on an active or on an ended session
ValueEnd ==
    /\ IsSome(current_session)
    /\ current_session' = Some(SessionEnd(Unwrap(current_session), now))
    /\ last_op' = "ValueEnd"
    /\ UNCHANGED now
    /\ SessionFrame

SessionNext ==
    \/ \E d \in TickSteps : ClockAdvances(d)
    \/ \E mode \in {"AiAssisted", "Review"} : ValueStart(mode)
    \/ ValueIncrementCheckIn
    \/ ValueEnd

\* ---------------------------------------------------------------------
\* The Timer's select loop: the message branch and the tick branch
\* (flux-daemon/src/actors/timer.rs, TimerHandle and TimerActor::run)
\* ---------------------------------------------------------------------

\* The messages the TimerHandle methods send, for caller c
HandleMessages(c) ==
    {[msg |-> "Start", conn |-> c, duration |-> r.duration, mode |-> r.mode] :
        r \in StartRequests}
    \cup {[msg |-> k, conn |-> c, duration |-> 0, mode |-> "AiAssisted"] :
            k \in {"Stop", "Pause", "Resume", "GetStatus"}}

\* TimerHandle::start / stop / pause / resume / get_status, called by task c:
\* sender.send(message).await; get_status then awaits the reply
HandleCalls(c, m) ==
    /\ conns[c].stage = "idle"
    /\ m.msg = "Start" =>
           Len(sessions) + Len(SelectSeq(timer_mailbox, LAMBDA q : q.msg = "Start"))
               < MaxSessions
    /\ timer_mailbox' = Append(timer_mailbox, m)
    /\ conns' = [conns EXCEPT
                    ![c].stage = IF m.msg = "GetStatus" THEN "waiting" ELSE "closed"]
    /\ last_op' = "HandleCalls"
    /\ effects' = <<Eff("timer", m.msg, c)>>
    /\ UNCHANGED <<daemon, socket_file, shutdown_sent>>
    /\ UNCHANGED <<timerVars, trackerVars, linkVars, codecVars, digestVars, suggestionVars, notifierVars>>

\* A bug of the poll: receiver.await in place of try_recv, the loop stays in
\* the tick until the reply is there
PollWaitsForReply(pending) == IsSome(pending) /\ Unwrap(pending).resp = "Empty"

\* Whether check_pending_check_in_response keeps the loop waiting for the
\* reply: try_recv returns at once, whatever the channel holds
PollWaits(pending) == FALSE

\* The message branch of the select, taken when the loop is back at select
LoopReceives ==
    /\ ~PollWaits(pending_check_in)
    /\ TimerReceives

\* The tick branch of the select, taken when the loop is back at select
LoopTick(d) ==
    /\ ~PollWaits(pending_check_in)
    /\ Tick(d, TRUE)
    /\ UNCHANGED <<repo_failures, linkVars, serverVars, codecVars, digestVars, suggestionVars, notifierVars>>

\* No reply to a check-in ever arrives here
LoopNext ==
    \/ \E c \in ConnIds : \E m \in HandleMessages(c) : HandleCalls(c, m)
    \/ LoopReceives
    \/ \E d \in TickSteps : LoopTick(d)

\* ---------------------------------------------------------------------
\* The Notifier actor and its check-in notifications
\* (flux-daemon/src/actors/notifier.rs)
\* ---------------------------------------------------------------------

\* The actions a notification reports to wait_for_action: the two buttons,
\* a click on the body, and "__closed" when it is dismissed or times out
NotificationActions == {"yes", "no", "default", "__closed"}

\* A bug of the action closure: only "yes" counts as focused
ResponseOfActionUnlessYes(action) == IF action = "yes" THEN "Focused" ELSE "NotFocused"

\* The closure given to wait_for_action
ResponseOfAction(action) == IF action = "no" THEN "NotFocused" ELSE "Focused"

\* NotifierHandle::send_check_in: makes the oneshot channel and spawns the
\* task that will send the CheckIn message
SendCheckIn(id, percent) ==
    /\ check_ins[id].stage = "unsent"
    /\ \A other \in CheckInIds : other < id => check_ins[other].stage # "unsent"
    /\ check_ins' = [check_ins EXCEPT ![id].stage = "spawned", ![id].percent = percent]
    /\ last_op' = "SendCheckIn"
    /\ effects' = <<>>
    /\ UNCHANGED notifier_mailbox
    /\ UNCHANGED <<timerVars, trackerVars, linkVars, serverVars, codecVars, digestVars, suggestionVars>>

\* The spawned task runs: sender.send(NotifierMessage::CheckIn { .. }).await
CheckInTaskSends(id) ==
    /\ check_ins[id].stage = "spawned"
    /\ check_ins' = [check_ins EXCEPT ![id].stage = "queued"]
    /\ notifier_mailbox' = Append(notifier_mailbox, id)
    /\ last_op' = "CheckInTaskSends"
    /\ effects' = <<>>
    /\ UNCHANGED <<timerVars, trackerVars, linkVars, serverVars, codecVars, digestVars, suggestionVars>>

\* NotifierActor::run takes a CheckIn message: send_check_in_notification
\* builds the notification and hands it to a blocking task
NotifierReceivesCheckIn ==
    /\ notifier_mailbox # <<>>
    /\ notifier_mailbox' = Tail(notifier_mailbox)
    /\ check_ins' = [check_ins EXCEPT ![Head(notifier_mailbox)].stage = "blocking"]
    /\ last_op' = "NotifierReceivesCheckIn"
    /\ effects' = <<Eff("runtime", "spawn_blocking", Head(notifier_mailbox))>>
    /\ UNCHANGED <<timerVars, trackerVars, linkVars, serverVars, codecVars, digestVars, suggestionVars>>

\* The blocking task: notification.show(); on Err it answers Focused
NotificationShow(id, ok) ==
    /\ check_ins[id].stage = "blocking"
    /\ check_ins' =
           [check_ins EXCEPT
               ![id].shown = Some(ok),
               ![id].stage = IF ok THEN "shown" ELSE "done",
               ![id].responses = IF ok THEN @ ELSE Append(@, "Focused")]
    /\ last_op' = "NotificationShow"
    /\ effects' = IF ok THEN <<>> ELSE <<Eff("response_sender", "send", id)>>
    /\ UNCHANGED notifier_mailbox
    /\ UNCHANGED <<timerVars, trackerVars, linkVars, serverVars, codecVars, digestVars, suggestionVars>>

\* The blocking task: wait_for_action returns after it called the closure
\* with the action, then response_sender.send(response)
ActionInvoked(id, action) ==
    /\ check_ins[id].stage = "shown"
    /\ check_ins' =
           [check_ins EXCEPT
               ![id].action = Some(action),
               ![id].stage = "done",
               ![id].responses = Append(@, ResponseOfAction(action))]
    /\ last_op' = "ActionInvoked"
    /\ effects' = <<Eff("response_sender", "send", id)>>
    /\ UNCHANGED notifier_mailbox
    /\ UNCHANGED <<timerVars, trackerVars, linkVars, serverVars, codecVars, digestVars, suggestionVars>>

NotifierNext ==
    \/ \E id \in CheckInIds, i \in DOMAIN CHECK_IN_THRESHOLDS :
           SendCheckIn(id, CHECK_IN_THRESHOLDS[i])
    \/ \E id \in CheckInIds : CheckInTaskSends(id)
    \/ NotifierReceivesCheckIn
    \/ \E id \in CheckInIds, ok \in BOOLEAN : NotificationShow(id, ok)
    \/ \E id \in CheckInIds, action \in NotificationActions : ActionInvoked(id, action)

\* ---------------------------------------------------------------------
\* The Digest Scheduler (flux-daemon/src/actors/digest_scheduler.rs)
\* ---------------------------------------------------------------------

\* str::to_lowercase on the configured day names
ToLowercase(s) ==
    CASE s = "TUESDAY" -> "tuesday"
      [] s = "Wednesday" -> "wednesday"
      [] s = "Sunday" -> "sunday"
      [] OTHER -> s

\* parse_weekday, the weekday as its num_days_from_monday
ParseWeekday(day) ==
    LET lower == ToLowercase(day)
    IN  CASE lower = "monday" -> 0
          [] lower = "tuesday" -> 1
          [] lower = "wednesday" -> 2
          [] lower = "thursday" -> 3
          [] lower = "friday" -> 4
          [] lower = "saturday" -> 5
          [] lower = "sunday" -> 6
          [] OTHER -> 0

\* calculate_next_digest_delay, in whole seconds, where the local time zone
\* has no transition between now and the target (LocalResult::Single)
CalculateNextDigestDelay(local_now, day, hour) ==
    LET target_weekday == ParseWeekday(day)
        target_time == (IF hour < 24 THEN hour ELSE 9) * HourSeconds
        current_weekday == (local_now \div DayParts) % 7
        days_until == (target_weekday - current_weekday + 7) % 7
        days == IF days_until = 0 /\ local_now % DayParts >= target_time * SubsPerSecond
                THEN 7 ELSE days_until
        target_date == (local_now \div DayParts) + days
        target_datetime == (target_date * DaySeconds + target_time) * SubsPerSecond
        diff == target_datetime - local_now
        num_seconds == IF diff >= 0 THEN diff \div SubsPerSecond
                                    ELSE -((-diff) \div SubsPerSecond)
    IN  IF num_seconds > 0 THEN num_seconds ELSE 0

\* A bug of find_completed_since: sessions still active are returned too
FindStartedSince(stored, since) ==
    {s \in stored : s.started_at >= since}

\* SessionRepository::find_completed_since
FindCompletedSince(stored, since) ==
    {s \in stored : s.ended /\ s.started_at >= since}

\* NotifierHandle::send_weekly_digest: one weekly-digest notification
SendWeeklyDigest(session_count) ==
    <<Eff("notifier", "WeeklyDigest", session_count)>>

\* send_digest at the instant utc_now, where the repository answers (ok) or fails
SendDigest(stored, utc_now, ok) ==
    LET week_start == utc_now - 7 * DayParts
        found == FindCompletedSince(stored, week_start)
    IN  IF ~ok \/ found = {} THEN <<>>
        ELSE SendWeeklyDigest(Cardinality(found))

\* DigestSchedulerActor::new, main hands it the config and the repository;
\* the local clock reads t
DigestNew ==
    /\ digest.stage = "none"
    /\ \E enabled \in BOOLEAN, day \in ConfiguredDays, hour \in ConfiguredHours,
          t \in StartInstants :
          \E stored \in StoredSessions(t) :
              digest' = [digest EXCEPT !.stage = "new", !.enabled = enabled,
                                       !.day = day, !.hour = hour, !.now = t,
                                       !.stored = stored]
    /\ last_op' = "DigestNew"
    /\ effects' = <<>>
    /\ UNCHANGED <<timerVars, trackerVars, linkVars, serverVars, codecVars,
                   notifierVars, suggestionVars>>

\* run up to the first select!: returns when disabled, else computes the delay
\* and sleeps
DigestRun ==
    /\ digest.stage = "new"
    /\ digest' = IF ~digest.enabled
                 THEN [digest EXCEPT !.stage = "returned"]
                 ELSE [digest EXCEPT
                         !.stage = "sleeping",
                         !.delay = CalculateNextDigestDelay(digest.now, digest.day,
                                                            digest.hour)]
    /\ last_op' = "DigestRun"
    /\ effects' = <<>>
    /\ UNCHANGED <<timerVars, trackerVars, linkVars, serverVars, codecVars,
                   notifierVars, suggestionVars>>

\* The sleep branch of the select!: the sleep ends at its deadline or late
\* parts of a second after it, send_digest runs, and the loop computes the
\* next delay and sleeps again
DigestWakes(late, ok) ==
    /\ digest.stage = "sleeping"
    /\ digest.wakes < MaxWakes
    /\ LET woke == digest.now + digest.delay * SubsPerSecond + late
       IN  /\ effects' = SendDigest(digest.stored, woke, ok)
           /\ digest' = [digest EXCEPT
                           !.now = woke,
                           !.wakes = @ + 1,
                           !.read_ok = ok,
                           !.delay = CalculateNextDigestDelay(woke, digest.day,
                                                              digest.hour)]
    /\ last_op' = "DigestWakes"
    /\ UNCHANGED <<timerVars, trackerVars, linkVars, serverVars, codecVars,
                   notifierVars, suggestionVars>>

\* The shutdown branch of the select!: break
DigestShutdown ==
    /\ digest.stage = "sleeping"
    /\ digest' = [digest EXCEPT !.stage = "returned"]
    /\ last_op' = "DigestShutdown"
    /\ effects' = <<>>
    /\ UNCHANGED <<timerVars, trackerVars, linkVars, serverVars, codecVars,
                   notifierVars, suggestionVars>>

DigestNext ==
    \/ DigestNew
    \/ DigestRun
    \/ \E late \in 0..MaxSubsec, ok \in BOOLEAN : DigestWakes(late, ok)
    \/ DigestShutdown

\* ---------------------------------------------------------------------
\* SuggestionReport::from_session_data (flux-core/src/domain/suggestion.rs)
\* ---------------------------------------------------------------------

\* char::to_lowercase on the characters of the names
CharToLowercase(c) ==
    CASE c = "V" -> "v"
      [] c = "Z" -> "z"
      [] OTHER -> c

\* String::to_lowercase
NameToLowercase(name) == [i \in DOMAIN name |-> CharToLowercase(name[i])]

\* str::contains
Contains(text, pattern) ==
    \E i \in 0..(Len(text) - Len(pattern)) :
        SubSeq(text, i + 1, i + Len(pattern)) = pattern

\* suggestions.sort_by(|a, b| b.short_burst_count.cmp(&a.short_burst_count)):
\* a stable sort, the larger count first
RECURSIVE SortByBurstCount(_)
SortByBurstCount(v) ==
    IF v = <<>> THEN <<>>
    ELSE LET sorted == SortByBurstCount(SubSeq(v, 1, Len(v) - 1))
             last == v[Len(v)]
             k == Cardinality({i \in DOMAIN sorted :
                      sorted[i].short_burst_count >= last.short_burst_count})
         IN  SubSeq(sorted, 1, k) \o <<last>> \o SubSeq(sorted, k + 1, Len(sorted))

\* A bug of from_session_data: the suggestions are left in the order of the map
FromSessionDataUnsorted(short_burst_count, existing_distractions, whitelist) ==
    LET Keep(e) ==
            LET app_lower == NameToLowercase(e.app)
                is_distraction ==
                    \E d \in existing_distractions : Contains(app_lower, d)
                is_whitelisted == \E w \in whitelist : Contains(app_lower, w)
            IN  /\ e.count >= MIN_SHORT_BURSTS_FOR_SUGGESTION
                /\ ~is_distraction
                /\ ~is_whitelisted
        kept == SelectSeq(short_burst_count, Keep)
    IN  [i \in DOMAIN kept |->
            [application_name |-> kept[i].app, short_burst_count |-> kept[i].count]]

\* SuggestionReport::from_session_data, the suggestions of the report
FromSessionData(short_burst_count, existing_distractions, whitelist) ==
    LET Keep(e) ==
            LET app_lower == NameToLowercase(e.app)
                is_distraction ==
                    \E d \in existing_distractions : Contains(app_lower, d)
                is_whitelisted == \E w \in whitelist : Contains(app_lower, w)
            IN  /\ e.count >= MIN_SHORT_BURSTS_FOR_SUGGESTION
                /\ ~is_distraction
                /\ ~is_whitelisted
        kept == SelectSeq(short_burst_count, Keep)
    IN  SortByBurstCount(
            [i \in DOMAIN kept |->
                [application_name |-> kept[i].app,
                 short_burst_count |-> kept[i].count]])

\* The caller has a short-burst map and the two sets of the DistractionConfig
SuggestionPick ==
    /\ suggestion.stage = "idle"
    /\ \E m \in BurstMaps, existing \in SUBSET ConfiguredNames,
          whitelist \in SUBSET ConfiguredNames :
          suggestion' = [stage |-> "picked", short_burst_count |-> m,
                         existing_distractions |-> existing,
                         whitelist_apps |-> whitelist, suggestions |-> <<>>]
    /\ last_op' = "SuggestionPick"
    /\ effects' = <<>>
    /\ UNCHANGED <<timerVars, trackerVars, linkVars, serverVars, codecVars,
                   notifierVars, digestVars>>

\* SuggestionReport::from_session_data(..) returns
FromSessionDataReturns ==
    /\ suggestion.stage = "picked"
    /\ suggestion' =
           [suggestion EXCEPT
               !.stage = "returned",
               !.suggestions = FromSessionData(suggestion.short_burst_count,
                                               suggestion.existing_distractions,
                                               suggestion.whitelist_apps)]
    /\ last_op' = "FromSessionDataReturns"
    /\ effects' = <<>>
    /\ UNCHANGED <<timerVars, trackerVars, linkVars, serverVars, codecVars,
                   notifierVars, digestVars>>

SuggestionNext ==
    \/ SuggestionPick
    \/ FromSessionDataReturns

\* ---------------------------------------------------------------------
\* Specifications
\* ---------------------------------------------------------------------

\* The Timer alone, with reliable storage
TimerStep == TimerNext /\ UNCHANGED <<repo_failures, linkVars, serverVars, codecVars, digestVars, suggestionVars, notifierVars>>
TimerSpec == Init /\ [][TimerStep]_vars

\* The Timer with a session repository that is unreliable from the start:
\* up to MaxFailures calls fail and up to MaxFaultySessions sessions are saved
FaultyNext ==
    \/ TimerNext
    \/ StorageBreaks
FaultyStep ==
    /\ FaultyNext
    /\ repo_failures' = repo_failures + (IF RepoCallFailed(effects') THEN 1 ELSE 0)
    /\ repo_failures' <= MaxFailures
    /\ storage_faulty'
    /\ Len(sessions') <= MaxFaultySessions
    /\ UNCHANGED <<linkVars, serverVars, codecVars, digestVars, suggestionVars, notifierVars>>
FaultySpec == Init /\ [][FaultyStep]_vars

\* The App Tracker alone, with reliable storage
TrackerStep == TrackerNext /\ UNCHANGED <<linkVars, serverVars, codecVars, digestVars, suggestionVars, notifierVars>>
TrackerSpec == Init /\ [][TrackerStep]_vars

ReportStep == ReportNext /\ UNCHANGED <<linkVars, serverVars, codecVars, digestVars, suggestionVars, notifierVars>>
ReportSpec == Init /\ [][ReportStep]_vars

\* The Timer's message handlers, the App Tracker's message handlers and the
\* tasks that carry the lifecycle messages between them
LinkSpec == Init /\ [][LinkNext]_vars

\* The IPC server, the Timer's message handlers behind it, and main's shutdown
ServerSpec == Init /\ [][ServerNext]_vars

\* The same, where main goes on to Server::run and the accept loop's select
\* takes the shutdown branch once the broadcast is there: tokio::select!
\* picks among the ready branches at random on every turn of the loop
ServerFairSpec ==
    Init /\ [][ServerNext]_vars /\ WF_vars(ServerRunBinds) /\ WF_vars(ServerRunReturns)

\* Values of the protocol and of FocusMode taken through their encodings
CodecSpec == Init /\ [][CodecNext]_vars

\* A Session value under its methods
SessionSpec == Init /\ [][SessionNext]_vars

\* The Timer's loop fed through its handle, where no check-in is answered
LoopSpec == Init /\ [][LoopNext]_vars

\* The same, where a message in the channel is taken: select! polls its ready
\* branches in random order, the tick branch cannot win every turn
LoopFairSpec == Init /\ [][LoopNext]_vars /\ WF_vars(LoopReceives)

\* The Notifier with the tasks that bring it check-ins and show them
NotifierSpec == Init /\ [][NotifierNext]_vars

\* The Digest Scheduler with its clock and the sessions table
DigestSpec == Init /\ [][DigestNext]_vars

\* SuggestionReport::from_session_data applied to short-burst maps
SuggestionSpec == Init /\ [][SuggestionNext]_vars

\* ---------------------------------------------------------------------
\* Properties of the Timer
\* ---------------------------------------------------------------------

Running == IsSome(state) /\ ~Unwrap(state).paused

Sent(msg) == \E i \in DOMAIN effects : effects[i].msg = msg

ThresholdsReached(percent) ==
    Cardinality({i \in 1..3 : CHECK_IN_THRESHOLDS[i] <= percent})

\* C1: after any sequence of Start, Stop, Pause, Resume and ticks the
\* sessions table holds at most one row whose ended_at is unset.
C1_AtMostOneActiveSession == Cardinality(ActiveRows) <= 1

\* C2: a Start handled while a session is active fails silently: the
\* TimerState and the current session are unchanged, no Session is persisted
\* and no SessionStart / Started message is emitted.
C2_StartWhileActiveIsSilent ==
    [][(last_op' = "Start" /\ IsSome(state)) =>
           /\ state' = state
           /\ current_session' = current_session
           /\ sessions' = sessions
           /\ \A i \in DOMAIN effects' :
                  effects'[i].msg \notin {"SessionStart", "Started", "save"}]_vars

\* C3: a tick of an active unpaused session leaves remaining strictly
\* smaller or completes the session; a tick of a paused session leaves
\* remaining unchanged.
C3_TickDecreasesRemaining ==
    [][(last_op' = "Tick" /\ IsSome(state)) =>
           IF Unwrap(state).paused
           THEN IsSome(state') /\ Unwrap(state').remaining = Unwrap(state).remaining
           ELSE \/ state' = None
                \/ Unwrap(state').remaining < Unwrap(state).remaining]_vars

C3_Witness ==
    /\ last_op = "Tick"
    /\ Running
    /\ Unwrap(state).remaining < Unwrap(state).total_duration

C7_PollOutcome ==
    [][(last_op' = "Tick" /\ Running /\ IsSome(state') /\ IsSome(pending_check_in)) =>
           LET resp == Unwrap(pending_check_in).resp
               paused_msgs == {i \in DOMAIN effects' :
                                   effects'[i].msg \in {"Paused", "SessionPaused"}}
           IN  CASE resp = "NotFocused" ->
                        /\ pending_check_in' # pending_check_in
                        /\ Unwrap(state').paused
                        /\ \E i, j \in paused_msgs :
                               /\ effects'[i] = Eff("app_tracker", "Paused", 0)
                               /\ effects'[j] = Eff("notifier", "SessionPaused", 0)
                 [] resp \in {"Focused", "Closed"} ->
                        /\ pending_check_in' # pending_check_in
                        /\ ~Unwrap(state').paused
                        /\ paused_msgs = {}
                 [] OTHER ->
                        /\ pending_check_in' = pending_check_in
                        /\ ~Unwrap(state').paused
                        /\ effects' = <<>>]_vars

C7_Witness ==
    /\ last_op = "Tick"
    /\ IsSome(state)
    /\ Unwrap(state).paused
    /\ Sent("SessionPaused")

\* C8: time that passes between a Pause and the following Resume is never
\* subtracted from remaining: paused ticks and the Resume leave remaining
\* unchanged, and the tick that follows the Resume subtracts only the time
\* elapsed since the Resume.
C8_PausedTimeNotCounted ==
    [][(IsSome(state) /\ IsSome(state') /\ last_op' \in {"Tick", "Resume"}) =>
           /\ Unwrap(state).paused =>
                  Unwrap(state').remaining = Unwrap(state).remaining
           /\ (last_op = "Resume" /\ ~Unwrap(state).paused /\ last_op' = "Tick") =>
                  Unwrap(state').remaining = Unwrap(state).remaining - (now' - now)]_vars

\* a tick right after a Resume that followed a pause during which time passed
C8_Witness ==
    /\ last_op = "Resume"
    /\ Running
    /\ IsSome(current_session)
    /\ now - Unwrap(current_session).started_at
           > Unwrap(state).total_duration - Unwrap(state).remaining
    /\ Sent("Resumed")

\* C9: when the accumulated elapsed time reaches the total duration the tick
\* does the bookkeeping of Stop: the session end is persisted, Ended is sent
\* to the App Tracker and the state is dropped, after which GetStatus reports
\* active = false and the repository holds no active session.
C9_CompletionLeavesNoActiveSession ==
    (last_op = "Tick" /\ Sent("Ended")) =>
        /\ ~CurrentStatus.active
        /\ Sent("update")
        /\ ActiveRows = {}

\* C13: in every tick that dispatches a check-in, the session's check_in_count
\* incremented by one is written to the repository, and the write comes
\* before the CheckIn message sent to the Notifier.
C13_CheckInPersistedBeforeSent ==
    [][(last_op' = "Tick" /\ \E j \in DOMAIN effects' : effects'[j].msg = "CheckIn") =>
           /\ IsSome(current_session)
           /\ LET id == Unwrap(current_session).id
              IN  /\ sessions'[id].check_in_count = sessions[id].check_in_count + 1
                  /\ sessions'[id].check_in_count
                         = Unwrap(current_session).check_in_count + 1
                  /\ \E i, j \in DOMAIN effects' :
                         /\ i < j
                         /\ effects'[i] = Eff("repository", "update", id)
                         /\ effects'[j].msg = "CheckIn"
                         /\ \A k \in DOMAIN effects' :
                                effects'[k].msg = "CheckIn" => k > i]_vars

\* the second check-in of a session was just dispatched
C13_Witness ==
    /\ last_op = "Tick"
    /\ Sent("CheckIn")
    /\ IsSome(current_session)
    /\ sessions[Unwrap(current_session).id].check_in_count = 2

CountSent(effs, to, msg) ==
    Cardinality({i \in DOMAIN effs : effs[i].to = to /\ effs[i].msg = msg})

\* C25: a Pause of a paused session, a Resume of an unpaused session, and a
\* Pause or Resume without a session change nothing in the Timer and send
\* nothing to the App Tracker, the Tray or the Notifier; a Pause or Resume
\* that flips the flag sends each of its lifecycle messages exactly once.
C25_PauseResumeOnlyWhenFlagDiffers ==
    [][/\ last_op' = "Pause" =>
           IF IsSome(state) /\ ~Unwrap(state).paused
           THEN /\ state' = Some([Unwrap(state) EXCEPT !.paused = TRUE])
                /\ Len(effects') = 2
                /\ CountSent(effects', "app_tracker", "Paused") = 1
                /\ CountSent(effects', "notifier", "SessionPaused") = 1
                /\ tray' = "Paused"
           ELSE /\ effects' = <<>>
                /\ UNCHANGED <<state, current_session, pending_check_in, sessions,
                               tray>>
       /\ last_op' = "Resume" =>
           IF IsSome(state) /\ Unwrap(state).paused
           THEN /\ IsSome(state')
                /\ ~Unwrap(state').paused
                /\ Unwrap(state').remaining = Unwrap(state).remaining
                /\ Len(effects') = 2
                /\ CountSent(effects', "app_tracker", "Resumed") = 1
                /\ CountSent(effects', "notifier", "SessionResumed") = 1
                /\ tray' = "Active"
           ELSE /\ effects' = <<>>
                /\ UNCHANGED <<state, current_session, pending_check_in, sessions,
                               tray>>]_vars

\* a Pause was handled while the session was already paused
C25_Witness ==
    /\ last_op = "Pause"
    /\ effects = <<>>
    /\ IsSome(state)
    /\ Unwrap(state).paused
    /\ tray = "Paused"

\* C26: Stop on an active session, paused or not, writes the end instant and
\* the duration of the session to the repository, sends Ended to the App
\* Tracker and session-ended to the Notifier, sets the Tray to Inactive and
\* drops the TimerState, so that GetStatus reports active = false; Stop
\* without a session changes nothing and sends nothing.
C26_StopEndsSession ==
    [][last_op' = "Stop" =>
          IF IsSome(state)
          THEN /\ state' = None
               /\ ~CurrentStatus'.active
               /\ tray' = "Inactive"
               /\ CountSent(effects', "app_tracker", "Ended") = 1
               /\ CountSent(effects', "notifier", "SessionEnd") = 1
               /\ IsSome(current_session)
               /\ LET session == Unwrap(current_session)
                  IN  /\ sessions'[session.id].ended_at = Some(now)
                      /\ sessions'[session.id].duration_seconds =
                             Some(now - session.started_at)
                      /\ sessions[session.id].ended_at = None
          ELSE /\ effects' = <<>>
               /\ UNCHANGED <<state, current_session, pending_check_in, sessions,
                              tray>>]_vars

\* a session was stopped some time after its start
C26_Witness ==
    /\ last_op = "Stop"
    /\ state = None
    /\ IsSome(last_ended)
    /\ tray = "Inactive"
    /\ LET row == sessions[Unwrap(last_ended).id]
       IN  IsSome(row.ended_at) /\ Unwrap(row.duration_seconds) > 0

\* C24: every Session value made by Session::start and changed by
\* increment_check_in and end has ended_at set if and only if
\* duration_seconds is set.
C24_EndedIffDuration ==
    IsSome(current_session) =>
        (IsSome(Unwrap(current_session).ended_at)
            <=> IsSome(Unwrap(current_session).duration_seconds))

\* a session with a check-in was ended some time after its start
C24_Witness ==
    /\ IsSome(current_session)
    /\ Unwrap(current_session).check_in_count > 0
    /\ IsSome(Unwrap(current_session).ended_at)
    /\ IsSome(Unwrap(current_session).duration_seconds)
    /\ Unwrap(Unwrap(current_session).duration_seconds) > 0

\* A message of caller c is in the Timer's channel
InMailbox(c) == \E i \in DOMAIN timer_mailbox : timer_mailbox[i].conn = c

\* C23: with a check-in reply that never arrives, every message sent to the
\* Timer is eventually taken from its channel and handled, and a GetStatus
\* gets its reply.
C23_MessagesServedWhileCheckInOutstanding ==
    \A c \in ConnIds :
        InMailbox(c) ~>
            (~InMailbox(c) /\ (conns[c].stage = "waiting" => IsSome(conns[c].reply)))

\* a GetStatus was answered, after a tick, while the check-in reply was
\* outstanding
C23_Witness ==
    /\ IsSome(pending_check_in)
    /\ Unwrap(pending_check_in).resp = "Empty"
    /\ last_op = "GetStatus"
    /\ \E c \in ConnIds : conns[c].stage = "waiting" /\ IsSome(conns[c].reply)
    /\ IsSome(state)
    /\ Unwrap(state).remaining < Unwrap(state).total_duration

\* C34: every Start that makes the Timer active sends Started(session_id) to
\* the App Tracker, also when persisting the session fails, so that the Paused,
\* Resumed and Ended of the session follow a Started.
C34_StartSendsStarted ==
    [][(last_op' = "Start" /\ IsSome(state'))
        => CountSent(effects', "app_tracker", "Started") = 1]_vars

\* The check-in notifications among the calls of a handler
CheckInsSent(effs) == CountSent(effs, "notifier", "CheckIn")

\* C35: the Timer never dispatches a CheckIn, nor increments check_in_count,
\* while the session is paused, the tick on which a NotFocused reply has just
\* paused the session included.
C35_NoCheckInWhilePaused ==
    [][/\ CheckInsSent(effects') > 0 => ~Unwrap(state').paused
       /\ (/\ IsSome(current_session) /\ IsSome(current_session')
           /\ Unwrap(current_session').id = Unwrap(current_session).id
           /\ Unwrap(current_session').check_in_count
                  > Unwrap(current_session).check_in_count)
            => ~Unwrap(state').paused]_vars

\* C36: after a session has ended, by Stop or by completion, no pending
\* check-in receiver remains, so no reply to a check-in of that session can
\* pause a later session or hold back its check-ins.
C36_NoPendingCheckInAfterEnd ==
    state = None => pending_check_in = None

\* C37: the tray projects the Timer state: Inactive when no session is
\* active, Paused when the session is paused, CheckInPending only while a
\* check-in receiver is held, Active when the session is active, not paused
\* and no check-in receiver is held.
C37_TrayProjectsTimerState ==
    /\ state = None => tray = "Inactive"
    /\ (IsSome(state) /\ Unwrap(state).paused) => tray = "Paused"
    /\ tray = "CheckInPending" => IsSome(pending_check_in)
    /\ (IsSome(state) /\ ~Unwrap(state).paused /\ pending_check_in = None)
            => tray = "Active"

\* The thresholds marked dispatched in the running session
MarkedDone == {i \in 1..3 : Unwrap(state).check_ins_done[i]}

\* C39: within one session each threshold is dispatched at most once and in
\* ascending order, so the check_in_count of the session never exceeds 3 and
\* equals the number of thresholds marked dispatched.
C39_CheckInCountIsThresholdsMarked ==
    [][/\ (last_op' = "Tick" /\ CheckInsSent(effects') > 0)
            => \E i \in 1..3 :
                  /\ effects'[Len(effects')].arg = CHECK_IN_THRESHOLDS[i]
                  /\ ~Unwrap(state).check_ins_done[i]
                  /\ \A j \in 1..(i - 1) : Unwrap(state).check_ins_done[j]
                  /\ MarkedDone' = MarkedDone \cup {i}
       /\ (IsSome(state') /\ IsSome(current_session'))
            => /\ Unwrap(current_session').check_in_count <= 3
               /\ Unwrap(current_session').check_in_count = Cardinality(MarkedDone')]_vars

\* ---------------------------------------------------------------------
\* Properties of the Digest Scheduler
\* ---------------------------------------------------------------------

\* the configured day names as days of the week, Monday first
DayOfWeek(day) ==
    CASE day = "monday" -> 0
      [] day = "TUESDAY" -> 1
      [] day = "Wednesday" -> 2
      [] day = "thursday" -> 3
      [] day = "friday" -> 4
      [] day = "saturday" -> 5
      [] day = "Sunday" -> 6

\* C31: whatever the current local weekday and time and the configured
\* weekday and hour, the delay the Digest Scheduler computes is greater than
\* 0 and at most 7 days, and now + delay is the configured hour of the
\* configured weekday: today's occurrence if it is still in the future,
\* otherwise the next one.
C31_DelayLandsOnConfiguredHour ==
    digest.stage = "sleeping" =>
        LET landing == digest.now + digest.delay * SubsPerSecond
        IN  /\ digest.delay > 0
            /\ digest.delay <= 7 * DaySeconds
            /\ (landing \div DayParts) % 7 = DayOfWeek(digest.day)
            /\ landing % DayParts = digest.hour * HourSeconds * SubsPerSecond

\* the sessions of the table that are completed and started in the seven
\* days before the scheduler last woke
CompletedInLastWeek ==
    {s \in digest.stored : s.ended /\ s.started_at >= digest.now - 7 * DayParts}

DigestsSent(effs) == CountSent(effs, "notifier", "WeeklyDigest")

\* C32 as stated: each time the Digest Scheduler wakes from its sleep it emits
\* exactly one weekly-digest notification if a completed session started
\* within the last seven days exists and none otherwise, then sleeps until
\* the next occurrence; a shutdown that arrives while it sleeps makes it
\* return without a digest.
C32_OneDigestPerWake ==
    [][/\ last_op' = "DigestWakes"
            => /\ DigestsSent(effects') = IF CompletedInLastWeek' # {} THEN 1 ELSE 0
               /\ digest'.stage = "sleeping"
       /\ last_op' = "DigestShutdown"
            => /\ digest.stage = "sleeping"
               /\ digest'.stage = "returned"
               /\ DigestsSent(effects') = 0]_vars

\* C32 amended: each time the Digest Scheduler wakes from its sleep it emits
\* exactly one weekly-digest notification if the read of the sessions table
\* succeeds and returns a completed session started within the last seven
\* days, and none otherwise, then sleeps until the next occurrence; a
\* shutdown that arrives while it sleeps makes it return without a digest.
C32_OneDigestPerWakeWhenRead ==
    [][/\ last_op' = "DigestWakes"
            => /\ DigestsSent(effects')
                      = IF digest'.read_ok /\ CompletedInLastWeek' # {} THEN 1 ELSE 0
               /\ digest'.stage = "sleeping"
       /\ last_op' = "DigestShutdown"
            => /\ digest.stage = "sleeping"
               /\ digest'.stage = "returned"
               /\ DigestsSent(effects') = 0]_vars

\* C32 witness: on a wake the scheduler read the table, sent a digest and
\* went back to sleep
C32_Witness ==
    /\ last_op = "DigestWakes"
    /\ digest.stage = "sleeping"
    /\ digest.delay > 0
    /\ digest.read_ok
    /\ DigestsSent(effects) = 1

\* ---------------------------------------------------------------------
\* Properties of SuggestionReport::from_session_data
\* ---------------------------------------------------------------------

\* the name matches one of the configured names
Matches(name, configured) ==
    \E c \in configured : Contains(NameToLowercase(name), c)

\* the entries of the short-burst map that are to be suggested
ToSuggest ==
    {e \in {suggestion.short_burst_count[i] : i \in DOMAIN suggestion.short_burst_count} :
        /\ e.count >= 3
        /\ ~Matches(e.app, suggestion.existing_distractions)
        /\ ~Matches(e.app, suggestion.whitelist_apps)}

\* C33: from_session_data returns exactly the applications of the short-burst
\* map whose count is at least 3 and whose name matches neither a configured
\* distraction app nor a whitelisted app, each once and with its count, the
\* larger counts first.
C33_SuggestionsFilteredAndSorted ==
    suggestion.stage = "returned" =>
        LET result == suggestion.suggestions
        IN  /\ {result[i] : i \in DOMAIN result}
                   = {[application_name |-> e.app, short_burst_count |-> e.count] :
                          e \in ToSuggest}
            /\ Len(result) = Cardinality(ToSuggest)
            /\ \A i, j \in DOMAIN result :
                   i < j => result[i].short_burst_count >= result[j].short_burst_count

\* C33 witness: a map of three applications, one left out for its configured
\* name, the other two returned in the order opposite to the map's
C33_Witness ==
    /\ suggestion.stage = "returned"
    /\ Len(suggestion.short_burst_count) = 3
    /\ Len(suggestion.suggestions) = 2
    /\ \E i \in 1..3 :
           /\ suggestion.short_burst_count[i].count >= 3
           /\ Matches(suggestion.short_burst_count[i].app,
                      suggestion.existing_distractions \cup suggestion.whitelist_apps)
    /\ \E i, j \in 1..3 :
           /\ i < j
           /\ suggestion.short_burst_count[i].app
                  = suggestion.suggestions[2].application_name
           /\ suggestion.short_burst_count[j].app
                  = suggestion.suggestions[1].application_name

\* ---------------------------------------------------------------------
\* Properties of the App Tracker
\* ---------------------------------------------------------------------

\* the sum of the values of a map, counted element by element
CountedSum(f) == Cardinality({p \in Apps \X (1..MaxTicks + 1) : p[2] <= f[p[1]]})

\* C5: at session end the seconds persisted for (session, application) are
\* 5 times the number of unpaused ticks of the session that sampled the
\* application, whatever the interleaving of ticks with Paused, Resumed and
\* Ended.
C5_UsageIsFiveTimesSampledTicks ==
    \A id \in ended_sessions : \A app \in Apps :
        app_tracking[<<id, app>>]
            = POLLING_INTERVAL_SECONDS * ticks_sampled[<<id, app>>]

\* a session ended after an application was sampled twice with a Paused
\* handled between two sampled ticks
C5_Witness ==
    /\ last_op = "Ended"
    /\ started_count \in ended_sessions
    /\ \E app \in Apps : ticks_sampled[<<started_count, app>>] >= 2
    /\ sample_pairs > unbroken_pairs

\* C6: every SessionMetrics row written at session end has
\* total_short_bursts equal to the sum of the values of short_bursts_by_app.
C6_TotalIsSumOfShortBursts ==
    \A id \in SessionIds :
        IsSome(session_metrics[id]) =>
            Unwrap(session_metrics[id]).total_short_bursts
                = CountedSum(Unwrap(session_metrics[id]).short_bursts_by_app)

C6_Witness ==
    \E id \in SessionIds :
        /\ IsSome(session_metrics[id])
        /\ \E a, b \in Apps :
               /\ a # b
               /\ Unwrap(session_metrics[id]).short_bursts_by_app[a] >= 2
               /\ Unwrap(session_metrics[id]).short_bursts_by_app[b] >= 1

\* C10 as claimed: the context-switch counter equals the number of pairs of
\* consecutive sampled ticks whose application names differ, pairs of two
\* whitelisted applications excluded.
C10_SwitchCountIsSamplePairs ==
    IsSome(tracker) => Unwrap(tracker).context_switch_count = sample_pairs

\* C10 amended: the context-switch counter equals the number of pairs of
\* consecutive sampled ticks with no Paused handled between them whose
\* application names differ, pairs of two whitelisted applications excluded;
\* a tick that samples the same application as the previous one never
\* increments it.
C10_SwitchCountIsUnbrokenPairs ==
    IsSome(tracker) => Unwrap(tracker).context_switch_count = unbroken_pairs

\* a counted switch, after a switch across a pause that was not counted and
\* a switch between two whitelisted applications that was not counted
C10_Witness ==
    /\ last_op = "TrackerTick"
    /\ IsSome(tracker)
    /\ Unwrap(tracker).context_switch_count >= 1
    /\ sample_pairs > unbroken_pairs
    /\ \E a \in whitelist_apps :
           /\ ticks_sampled[<<Unwrap(tracker).session_id, a>>] >= 1
           /\ Unwrap(tracker).last_app # Some(a)

\* C11 as claimed: the short-burst count of an application is incremented
\* exactly when the foreground switches away from it after a run of
\* consecutive samples shorter than 15 seconds, and not otherwise.
C11_ShortBurstsAreShortResidences ==
    IsSome(tracker) => Unwrap(tracker).short_burst_count = bursts.ended

\* C11 amended: the short-burst count of an application is incremented exactly
\* when a tick samples another application than the previous sampled tick,
\* no Paused was handled between the two, the two applications are not both
\* whitelisted, and the run of consecutive samples of the previous
\* application since it came to the foreground or since the last Paused is
\* shorter than 15 seconds; it is not incremented otherwise.
C11_ShortBurstsAreCountedShortResidences ==
    IsSome(tracker) => Unwrap(tracker).short_burst_count = bursts.counted

\* a short burst was counted, and a short residence that ended in a switch
\* was not
C11_Witness ==
    /\ last_op = "TrackerTick"
    /\ IsSome(tracker)
    /\ \E a \in Apps : Unwrap(tracker).short_burst_count[a] >= 1
    /\ \E a \in Apps : bursts.ended[a] > bursts.counted[a]

\* C27: handling Paused leaves the tracker with an empty accumulator and with
\* all per-app detector state cleared: the distraction app, its counter and
\* alert flag, the last-seen app and its counter, the friction app and its
\* counters, and the pending friction response receiver.
C27_PausedClearsPerAppState ==
    [][(last_op' = "Paused" /\ IsSome(tracker)) =>
          /\ IsSome(tracker')
          /\ LET st == Unwrap(tracker')
             IN  /\ st.accumulated = NoSeconds
                 /\ st.current_distraction = None
                 /\ st.distraction_consecutive_seconds = 0
                 /\ ~st.distraction_alert_sent
                 /\ st.last_app = None
                 /\ st.app_consecutive_seconds = 0
                 /\ st.current_friction_app = None
                 /\ st.friction_consecutive_seconds = 0
                 /\ st.friction_reminder_count = 0
                 /\ st.friction_response_pending = None]_vars

\* The applications of a short-burst map that from_session_data keeps
Suggested(short_burst_count) ==
    {a \in Apps : /\ short_burst_count[a] >= 3
                  /\ a \notin distraction_apps
                  /\ a \notin whitelist_apps}

\* Whether the report on disk is the one produced from the session st
ReportOnDiskIsOf(file, st) ==
    /\ IsSome(file)
    /\ Unwrap(file).session_id = st.session_id
    /\ Unwrap(file).context_switch_count = st.context_switch_count
    /\ {r.application_name : r \in Unwrap(file).suggestions}
           = Suggested(st.short_burst_count)

\* C38: in every reachable state of the App Tracker the short-burst counts
\* of the applications of the session sum to at most its context-switch
\* counter.
C38_ShortBurstsAtMostSwitches ==
    IsSome(tracker) =>
        SumOver(Unwrap(tracker).short_burst_count, Apps)
            <= Unwrap(tracker).context_switch_count

\* short bursts of two applications were counted after polls
C38_Witness ==
    /\ last_op = "TrackerTick"
    /\ IsSome(tracker)
    /\ Cardinality({app \in Apps : Unwrap(tracker).short_burst_count[app] > 0}) >= 2
    /\ Unwrap(tracker).context_switch_count >= 2

SampledTick == last_op' = "TrackerTick" /\ ticks_sampled' # ticks_sampled

\* C29: within one uninterrupted run of ticks on the same distraction
\* application (a run ends at a tick on another application, at a Paused and
\* with the session) at most one distraction alert is pushed to the Notifier,
\* and only when alerting is enabled and the consecutive counter has reached
\* alert_after_seconds; a tick on an application that is not a distraction
\* resets the distraction app, the counter and the alert-sent flag.
C29_OneDistractionAlertPerRun ==
    [][/\ bursts'.alerts <= 1
       /\ (SampledTick /\ CountSent(effects', "notifier", "DistractionAlert") > 0)
            => /\ alert_enabled
               /\ Unwrap(prev_sample') \in distraction_apps
               /\ Unwrap(tracker').current_distraction = prev_sample'
               /\ Unwrap(tracker').distraction_consecutive_seconds
                      >= alert_after_seconds
       /\ (SampledTick /\ Unwrap(prev_sample') \notin distraction_apps)
            => /\ Unwrap(tracker').current_distraction = None
               /\ Unwrap(tracker').distraction_consecutive_seconds = 0
               /\ ~Unwrap(tracker').distraction_alert_sent]_vars

\* C29 witness: an alert was pushed during the run on a distraction and the
\* run went on for a tick past the threshold without a second one
C29_Witness ==
    /\ last_op = "TrackerTick"
    /\ alert_enabled
    /\ IsSome(prev_unbroken)
    /\ Unwrap(prev_unbroken) \in distraction_apps
    /\ bursts.alerts = 1
    /\ bursts.run_unbroken * POLLING_INTERVAL_SECONDS > alert_after_seconds
    /\ effects = <<>>

\* The friction prompts of the run so far, without the answers between them
PromptsOfRun == SelectSeq(bursts.prompts, LAMBDA x : x # "StopSession")

\* C30: within one uninterrupted run of ticks on the same friction application
\* the first prompt is a friction reminder and every later prompt of the run is
\* an escalated one, whatever was answered in between; no prompt is sent while
\* a friction response is pending.
C30_ReminderThenEscalated ==
    [][/\ \A i \in 1..Len(PromptsOfRun') :
              PromptsOfRun'[i] = IF i = 1 THEN "FrictionReminder"
                                 ELSE "FrictionEscalated"
       /\ (SampledTick /\ SentPrompts(effects') # <<>>)
            => ~(/\ IsSome(Unwrap(tracker).friction_response_pending)
                 /\ Unwrap(Unwrap(tracker).friction_response_pending).resp = "Empty")]_vars

\* ---------------------------------------------------------------------
\* Properties of the link from the Timer to the App Tracker
\* ---------------------------------------------------------------------

\* C12: the App Tracker handles the lifecycle messages (Started, Paused,
\* Resumed, Ended) in the order in which the Timer emitted them.
C12_LifecycleHandledInEmissionOrder ==
    \A i, j \in 1..Len(handled) : i < j => handled[i] < handled[j]

\* ---------------------------------------------------------------------
\* Properties of the IPC server and of shutdown
\* ---------------------------------------------------------------------

\* C14: when the daemon exits after a broadcast shutdown, the Timer and the
\* App Tracker have dropped their state as on Ended: no session row is left
\* without its end instant and no tracker state is left unflushed.
C14_ShutdownEndsSession ==
    daemon = "exited" => /\ state = None
                         /\ ActiveRows = {}
                         /\ tracker = None

\* C15: a Stop that the Timer handles while no session is active was
\* requested on a connection that is answered with an Error response.
C15_StopWithoutSessionIsError ==
    [][(/\ timer_mailbox # <<>>
        /\ timer_mailbox' = Tail(timer_mailbox)
        /\ Head(timer_mailbox).msg = "Stop"
        /\ state = None) =>
           LET c == Head(timer_mailbox).conn
           IN  /\ conns'[c].frames # <<>>
               /\ conns'[c].frames[1].kind = "Error"]_vars

C17_ShutdownRequestStopsAccepting ==
    /\ [][\A c \in ConnIds :
             (/\ conns[c].stage = "accepted"
              /\ conns[c].request = Some(ShutdownRequest)
              /\ conns'[c].stage = "closed") =>
                 /\ conns'[c].frames = <<Resp("Ok", None)>>
                 /\ shutdown_sent'
                 /\ \E i, j \in DOMAIN effects' :
                        /\ i < j
                        /\ effects'[i] = Eff("stream", "write_frame", c)
                        /\ effects'[j] = Eff("shutdown", "send", 0)]_vars
    /\ [][\A c \in ConnIds :
             (daemon \in {"returned", "exited"} /\ conns'[c].stage = "accepted") =>
                 conns[c].stage = "accepted"]_vars
    /\ (shutdown_sent ~> daemon \in {"returned", "exited"})

\* the daemon exited after a Shutdown request was answered Ok, and a client
\* that had connected was never accepted
C17_Witness ==
    /\ daemon = "exited"
    /\ \E c, d \in ConnIds :
           /\ conns[c].request = Some(ShutdownRequest)
           /\ conns[c].frames = <<Resp("Ok", None)>>
           /\ conns[d].stage = "pending"

\* C18: when Server::run finds a socket file at startup it removes the file
\* before it binds, and once the run loop is left the socket file does not
\* exist.
C18_SocketFileCleanedUp ==
    [][/\ (daemon = "starting" /\ daemon' = "listening" /\ socket_file) =>
              effects' = <<Eff("fs", "remove_file", 0), Eff("fs", "bind", 0)>>
       /\ daemon' \in {"returned", "exited"} => ~socket_file']_vars

\* the run loop was just left and the socket file is gone
C18_Witness ==
    /\ last_op = "ServerRunReturns"
    /\ daemon = "returned"
    /\ ~socket_file

\* ---------------------------------------------------------------------
\* Properties of the wire format and of the stored FocusMode
\* ---------------------------------------------------------------------

\* C19: every Request and every Response value, encoded and then decoded,
\* gives back a value equal to the original.
C19_WireRoundTrip ==
    (codec.stage = "decoded" /\ codec.type \in {"Request", "Response"}) =>
        codec.back = codec.value

\* a StartSession with a duration and a Custom mode went through the codec
C19_Witness ==
    /\ codec.stage = "decoded"
    /\ codec.type = "Request"
    /\ codec.back = Some(Req("StartSession", Some(MaxU64), Some(FM("Custom", "deep-work"))))
    /\ Len(Unwrap(codec.wire)) > 4

\* C20 as claimed: for every FocusMode m, Custom labels included,
\* from_stored(m.as_str()) equals m.
C20_StoredRoundTrip ==
    (codec.stage = "decoded" /\ codec.type = "FocusMode") => codec.back = codec.value

\* C20 amended: from_stored(m.as_str()) equals m for every FocusMode m that
\* is not a Custom whose label is one of the stored names "prompting",
\* "ai-assisted", "review", "architecture", "veille".
C20_StoredRoundTripUnlessReserved ==
    (/\ codec.stage = "decoded"
     /\ codec.type = "FocusMode"
     /\ ~(/\ Unwrap(codec.value).variant = "Custom"
          /\ Unwrap(codec.value).label \in
                 {"prompting", "ai-assisted", "review", "architecture", "veille"})) =>
        codec.back = codec.value

\* a Custom mode went through as_str and from_stored and came back
C20_Witness ==
    /\ codec.stage = "decoded"
    /\ codec.type = "FocusMode"
    /\ codec.value = Some(FM("Custom", "deep-work"))
    /\ codec.back = codec.value

\* ---------------------------------------------------------------------
\* Properties of the Notifier
\* ---------------------------------------------------------------------

\* C22: for every CheckIn the Notifier handles, one response is sent on its
\* reply channel, never a second one, and it is NotFocused only when the
\* user chose the "no" action; a notification that could not be shown, or
\* that closed or timed out without an action, is answered Focused.
C22_OneCheckInResponse ==
    \A id \in CheckInIds :
        LET c == check_ins[id]
        IN  /\ Len(c.responses) <= 1
            /\ c.stage = "done" <=> Len(c.responses) = 1
            /\ c.stage = "done" =>
                   /\ c.responses[1] = "NotFocused" <=> c.action = Some("no")
                   /\ c.shown = Some(FALSE) => c.responses[1] = "Focused"
                   /\ c.action = Some("__closed") => c.responses[1] = "Focused"

\* one check-in was answered "no", another one timed out
C22_Witness ==
    \E a, b \in CheckInIds :
        /\ check_ins[a].stage = "done"
        /\ check_ins[a].action = Some("no")
        /\ check_ins[a].responses = <<"NotFocused">>
        /\ check_ins[b].stage = "done"
        /\ check_ins[b].action = Some("__closed")
        /\ check_ins[b].responses = <<"Focused">>

====
